---------------------------- MODULE Spec2Model ----------------------------
(***************************************************************************)
(* A model of the voice-to-document backend of ai-printer-personal:        *)
(*   - the enhanced audio orchestration and its quality assessor           *)
(*     (backend/app/services/enhanced_audio_service.py),                   *)
(*   - the four-stage document generator                                   *)
(*     (backend/app/services/document_generation/document_processor.py),   *)
(*   - single calls of the functions around them: the Celery audio tasks   *)
(*     (backend/app/celery_app/tasks/audio_processing.py) and the template *)
(*     engine (backend/app/services/document_generation/template_engine.py)*)
(*                                                                         *)
(*                                                                         *)
(* Numbers: scores, ratios and confidences are kept in hundredths          *)
(* (0.25 is 25), decibels in whole dB, and a weighted sum of hundredths by *)
(* hundredths in ten-thousandths (0.725 is 7250).                          *)
(***************************************************************************)
EXTENDS Integers, Sequences, FiniteSets, TLC

VARIABLES
    \* ---- process_audio_with_enhancement (one call) ----
    enable_enhancement,   \* argument
    enhancement_level,    \* argument
    a_pc,                 \* position of the coroutine in the method
    task_state,           \* Celery AsyncResult state of each dispatched task
    task_result,          \* what each task returned (None until SUCCESS)
    results,              \* the local dict `results`
    transcription_audio,  \* local: which audio the main path transcribes
    quality_score,        \* local: quality handed to _transcribe_audio
    wait_outcome,         \* history: how each .get(timeout=) ended
    transcribe_calls,     \* history: every openai_service.transcribe_audio call
    a_error,              \* the exception caught at line 127 (None if none)
    a_return,             \* the returned dict (None while running / raised)
    \* ---- _calculate_quality_assessment as a pure function ----
    qa_in,                \* the four arguments
    qa_out,               \* the returned assessment (None before the call)
    \* ---- AdvancedDocumentProcessor.generate_document (one call) ----
    request,              \* the DocumentGenerationRequest
    d_pc,                 \* position of the coroutine in the method
    capability_calls,     \* history: every openai_service.generate_completion call
    analysis_result,      \* local of generate_document (stage 1 output)
    structured_content,   \* local (stage 2 output; stage 3 may update it in place)
    formatted_content,    \* local (stage 3 output)
    final_result,         \* the DocumentGenerationResult returned
    d_error,              \* the exception that left generate_document
    stage_log,            \* history: start and end of each stage
    \* ---- one call of one function, taken on its own ----
    f_name,               \* which function is called
    f_args,               \* its arguments
    f_return,             \* what it returned or raised (None before the call);
                          \* for the template calls, the results of the calls so far
    \* ---- security/auth.py: clients calling RateLimiter or SessionManager ----
    redis_client,         \* the keys of the Redis server the module talks to
    auth_calls,           \* per client: the call under way, its position and locals
    auth_replies,         \* history: every call that returned, in order of return
    auth_time,            \* history: the clock (rate-limit window or second)
    invalidated           \* history: session ids whose invalidation has completed

audioVars == <<enable_enhancement, enhancement_level, a_pc, task_state,
               task_result, results, transcription_audio, quality_score,
               wait_outcome, transcribe_calls, a_error, a_return>>
assessVars == <<qa_in, qa_out>>
docVars == <<request, d_pc, capability_calls, analysis_result, structured_content,
             formatted_content, final_result, d_error, stage_log>>

fnVars == <<f_name, f_args, f_return>>

authVars == <<redis_client, auth_calls, auth_replies, auth_time, invalidated>>

vars == <<audioVars, assessVars, docVars, fnVars, authVars>>

\* Python's None
None == [none |-> TRUE]

\* dict.get(key, default) on a dict modelled as a function
Get(d, k, default) == IF k \in DOMAIN d THEN d[k] ELSE default

\* the three Celery tasks of the audio pipeline
Tasks == {"enhancement", "features", "vad"}

\* no call of process_audio_with_enhancement is under way
AudioIdle ==
    /\ enable_enhancement = FALSE
    /\ enhancement_level = "balanced"
    /\ a_pc = "idle"
    /\ task_state = [t \in Tasks |-> "NONE"]
    /\ task_result = [t \in Tasks |-> None]
    /\ results = [x \in {} |-> None]
    /\ transcription_audio = None
    /\ quality_score = None
    /\ wait_outcome = [t \in Tasks |-> "not_waited"]
    /\ transcribe_calls = <<>>
    /\ a_error = None
    /\ a_return = None

\* no call of _calculate_quality_assessment is modelled
AssessIdle ==
    /\ qa_in = None
    /\ qa_out = None

\* no call of generate_document is under way
DocIdle ==
    /\ request = None
    /\ d_pc = "idle"
    /\ capability_calls = <<>>
    /\ analysis_result = None
    /\ structured_content = None
    /\ formatted_content = None
    /\ final_result = None
    /\ d_error = None
    /\ stage_log = <<>>

\* no single function call is modelled
FnIdle ==
    /\ f_name = "none"
    /\ f_args = None
    /\ f_return = None

\* no client of security/auth.py is modelled
AuthIdle ==
    /\ redis_client = None
    /\ auth_calls = None
    /\ auth_replies = <<>>
    /\ auth_time = 0
    /\ invalidated = {}

(***************************************************************************)
(* Bounded inputs                                                          *)
(***************************************************************************)
\* feature-extraction outputs: snr_estimate (dB) and dynamic_range
SnrVals == {-5, 0, 1, 10, 11, 20, 21}
DrVals == {10, 20, 21, 50, 51}
\* VAD statistics.speech_ratio
RatioVals == {0, 15, 20, 21, 40, 41, 70, 71, 100}
\* confidence_score of a transcription (0.8 is the default of line 187)
ConfVals == {0, 10, 43, 45, 50, 59, 60, 80, 95, 100}
\* enhancement quality_metrics.snr_improvement (dB)
ImprVals == {-1, 2, 3, 5, 7}


(***************************************************************************)
(* EnhancedAudioService._calculate_quality_assessment                      *)
(***************************************************************************)
\* lines 221-230: SNR band table
\* the band table with closed lower ends (>= for >)
SnrScoreClosedBands(snr) ==
    IF snr >= 20 THEN 100 ELSE IF snr >= 10 THEN 70 ELSE IF snr >= 0 THEN 50 ELSE 20

SnrScore(snr) ==
    IF snr > 20 THEN 100 ELSE IF snr > 10 THEN 70 ELSE IF snr > 0 THEN 50 ELSE 20

\* lines 233-242: speech-to-silence band table
SpeechContentScore(speech_ratio) ==
    IF speech_ratio > 70 THEN 100
    ELSE IF speech_ratio > 40 THEN 80
    ELSE IF speech_ratio > 20 THEN 60 ELSE 30

\* lines 245-252: dynamic range band table
DynamicRangeScore(dynamic_range) ==
    IF dynamic_range > 50 THEN 100 ELSE IF dynamic_range > 20 THEN 70 ELSE 40

\* lines 263-269: enhancement effectiveness band table
EnhancementScore(snr_improvement) ==
    IF snr_improvement > 5 THEN 100 ELSE IF snr_improvement > 2 THEN 80 ELSE 50

\* line 262: `if enhancement_result:` (None is falsy, the task's dict is not)
EnhancementRan(enhancement_result) == enhancement_result # None

\* lines 212-269: the dict `scores`; enhancement_effectiveness is a key only
\* when the enhancement result is truthy
ComponentScores(features, vad_result, enhancement_result, transcription_result) ==
    LET base ==
          [snr |-> SnrScore(features.quality_indicators.snr_estimate),
           speech_content |-> SpeechContentScore(vad_result.statistics.speech_ratio),
           dynamic_range |-> DynamicRangeScore(features.quality_indicators.dynamic_range),
           transcription_confidence |-> Get(transcription_result, "confidence_score", 50)]
    IN IF EnhancementRan(enhancement_result)
       THEN base @@ [enhancement_effectiveness |->
                       EnhancementScore(enhancement_result.quality_metrics.snr_improvement)]
       ELSE base

\* lines 213-259: the list `issues`, in the order the code appends
Issues(features, vad_result, transcription_result) ==
    (IF features.quality_indicators.snr_estimate > 0 THEN <<>> ELSE <<"low_snr">>)
    \o (IF vad_result.statistics.speech_ratio > 20 THEN <<>> ELSE <<"insufficient_speech">>)
    \o (IF features.quality_indicators.dynamic_range > 20 THEN <<>> ELSE <<"low_dynamic_range">>)
    \o (IF Get(transcription_result, "confidence_score", 50) < 60
        THEN <<"low_transcription_confidence">> ELSE <<>>)

\* lines 272-278
\* a weight map whose weights do not sum to 1.0: enhancement_effectiveness
\* weighs 0.2 instead of 0.1
weight_map_heavy_enhancement ==
    [snr |-> 30, speech_content |-> 25, dynamic_range |-> 15,
     transcription_confidence |-> 20, enhancement_effectiveness |-> 20]

weight_map ==
    [snr |-> 30, speech_content |-> 25, dynamic_range |-> 15,
     transcription_confidence |-> 20, enhancement_effectiveness |-> 10]

\* lines 280-283: sum(scores.get(key, 0.5) * weight ...), in ten-thousandths
WeightedSum(scores) ==
      Get(scores, "snr", 50) * weight_map.snr
    + Get(scores, "speech_content", 50) * weight_map.speech_content
    + Get(scores, "dynamic_range", 50) * weight_map.dynamic_range
    + Get(scores, "transcription_confidence", 50) * weight_map.transcription_confidence
    + Get(scores, "enhancement_effectiveness", 50) * weight_map.enhancement_effectiveness

\* One comparison `overall_score >= t` of lines 286-290 on the binary float
\* sum: when the exact sum equals the threshold the float sum is the
\* threshold or one ulp below it (0.3*1.0+0.25*0.6+0.15*1.0+0.2*0.5+0.1*1.0
\* is 0.7999999999999999), so both answers occur.
FloatGe(sum, t) == IF sum = t THEN BOOLEAN ELSE {sum > t}

\* lines 285-293: the grades the comparisons can give for an exact sum
GradeOf(sum) ==
    {g \in {"excellent", "good", "fair", "poor"} :
        \E e \in FloatGe(sum, 8000), gd \in FloatGe(sum, 6000), f \in FloatGe(sum, 4000) :
            g = IF e THEN "excellent" ELSE IF gd THEN "good"
                ELSE IF f THEN "fair" ELSE "poor"}

\* line 296: round(overall_score, 2), in hundredths.  An exact sum halfway
\* between two hundredths is a float just above or just below the half, and
\* rounds up or down accordingly.
Round2(sum) ==
    LET q == sum \div 100
        r == sum % 100
    IN IF r < 50 THEN {q} ELSE IF r > 50 THEN {q + 1} ELSE {q, q + 1}

\* lines 203-307: the assessments the method can return for its arguments
calculate_quality_assessment(features, vad_result, enhancement_result, transcription_result) ==
    LET scores == ComponentScores(features, vad_result, enhancement_result, transcription_result)
        overall == WeightedSum(scores)
    IN {[overall_score |-> o,
         grade |-> g,
         component_scores |-> scores,
         issues |-> Issues(features, vad_result, transcription_result),
         metrics |-> [snr_db |-> features.quality_indicators.snr_estimate,
                      speech_ratio |-> vad_result.statistics.speech_ratio,
                      dynamic_range |-> features.quality_indicators.dynamic_range,
                      transcription_confidence |->
                          Get(transcription_result, "confidence_score", 50),
                      enhancement_improvement |->
                          IF EnhancementRan(enhancement_result)
                          THEN enhancement_result.quality_metrics.snr_improvement
                          ELSE 0]] :
        o \in Round2(overall), g \in GradeOf(overall)}

\* membership in a list
InList(x, list) == \E i \in 1..Len(list) : list[i] = x

\* line 356: processing_results.get('enhancement_applied', False)
EnhancementApplied(processing_results) ==
    Get(processing_results, "enhancement_applied", FALSE)

\* lines 309-368 (technical_suggestions; the user recommendations are one
\* fixed record per issue tag, kept by their 'type')
generate_recommendations(quality_assessment, processing_results) ==
    LET issues == quality_assessment.issues
        overall_score == quality_assessment.overall_score
    IN [user_recommendations |->
            (IF InList("low_snr", issues) THEN <<"recording_environment">> ELSE <<>>)
            \o (IF InList("insufficient_speech", issues) THEN <<"recording_technique">> ELSE <<>>)
            \o (IF InList("low_dynamic_range", issues) THEN <<"recording_equipment">> ELSE <<>>)
            \o (IF InList("low_transcription_confidence", issues)
                THEN <<"speech_clarity">> ELSE <<>>),
        technical_suggestions |->
            (IF InList("low_snr", issues) THEN <<"Use aggressive noise reduction">> ELSE <<>>)
            \o (IF ~EnhancementApplied(processing_results) /\ overall_score < 60
                THEN <<"Enable audio enhancement for better results">> ELSE <<>>)]

\* The result dicts the Celery tasks return (audio_processing.py)
FeatureResult(snr, dr) ==
    [quality_indicators |-> [snr_estimate |-> snr, dynamic_range |-> dr]]
VadResult(ratio) == [statistics |-> [speech_ratio |-> ratio]]
EnhancementResult(impr, q) ==
    [enhanced_audio |-> "enhanced_audio",
     quality_metrics |-> [snr_improvement |-> impr],
     processing_info |-> [quality_score |-> q]]

(***************************************************************************)
(* EnhancedAudioService.process_audio_with_enhancement                     *)
(***************************************************************************)
EnhancementLevels == {"minimal", "balanced", "aggressive"}
\* the argument is a plain str: a caller can pass any other string
LevelArgs == EnhancementLevels \cup {"extreme"}

\* what the workers and the transcription capability return in the pipeline
PipeFeatureResults == {FeatureResult(snr, dr) : snr \in {0, 11, 21}, dr \in {20, 51}}
PipeVadResults == {VadResult(r) : r \in {15, 41, 71}}
PipeEnhancementResults == {EnhancementResult(i, q) : i \in {2, 7}, q \in {40, 90}}
PipeConfVals == {43, 80}

\* lines 151-162: temperature chosen from the quality score
Temperature(q) == IF q > 80 THEN 0 ELSE IF q > 50 THEN 20 ELSE 40

\* lines 189-198: the dict _transcribe_audio returns when the capability answers
TranscriptionDict(conf, q) ==
    [text |-> "text", confidence_score |-> conf, processing_quality |-> q,
     temperature_used |-> Temperature(q)]

\* one entry of the history of capability calls
TranscribeCall(path, audio, q) ==
    [path |-> path, audio |-> audio, quality_score |-> q,
     enhancement_state |-> task_state["enhancement"],
     enhancement_wait |-> wait_outcome["enhancement"]]

\* the `except Exception as e:` of line 127 is entered
Caught(kind, at) ==
    /\ a_error' = [kind |-> kind, at |-> at]
    /\ a_pc' = "fallback"

InitAudio ==
    /\ enable_enhancement \in BOOLEAN
    /\ enhancement_level \in LevelArgs
    /\ a_pc = "dispatch_enhancement"
    /\ task_state = [t \in Tasks |-> "NONE"]
    /\ task_result = [t \in Tasks |-> None]
    /\ results = [x \in {} |-> None]
    /\ transcription_audio = None
    /\ quality_score = None
    /\ wait_outcome = [t \in Tasks |-> "not_waited"]
    /\ transcribe_calls = <<>>
    /\ a_error = None
    /\ a_return = None
    /\ AssessIdle
    /\ AuthIdle
    /\ DocIdle
    /\ FnIdle

\* lines 54-60: enhance_audio_quality.delay(...), only if enable_enhancement
DispatchEnhancement ==
    /\ a_pc = "dispatch_enhancement"
    /\ IF enable_enhancement
       THEN \E ok \in BOOLEAN :
              IF ok
              THEN /\ task_state' = [task_state EXCEPT !["enhancement"] = "PENDING"]
                   /\ a_pc' = "dispatch_features"
                   /\ UNCHANGED a_error
              ELSE /\ Caught("dispatch_failed", "enhancement")
                   /\ UNCHANGED task_state
       ELSE /\ a_pc' = "dispatch_features"
            /\ UNCHANGED <<task_state, a_error>>
    /\ UNCHANGED <<enable_enhancement, enhancement_level, task_result, results,
                   transcription_audio, quality_score, wait_outcome,
                   transcribe_calls, a_return, assessVars, docVars, authVars, fnVars>>

\* lines 63-64: extract_audio_features.delay(audio_data)
DispatchFeatures ==
    /\ a_pc = "dispatch_features"
    /\ \E ok \in BOOLEAN :
         IF ok
         THEN /\ task_state' = [task_state EXCEPT !["features"] = "PENDING"]
              /\ a_pc' = "dispatch_vad"
              /\ UNCHANGED a_error
         ELSE /\ Caught("dispatch_failed", "features")
              /\ UNCHANGED task_state
    /\ UNCHANGED <<enable_enhancement, enhancement_level, task_result, results,
                   transcription_audio, quality_score, wait_outcome,
                   transcribe_calls, a_return, assessVars, docVars, authVars, fnVars>>

\* lines 67-69: the aggressiveness lookup (KeyError on an unknown level), then
\* detect_speech_segments.delay(audio_data, aggressiveness)
DispatchVad ==
    /\ a_pc = "dispatch_vad"
    /\ IF enhancement_level \notin EnhancementLevels
       THEN /\ Caught("KeyError", "enhancement_level")
            /\ UNCHANGED task_state
       ELSE \E ok \in BOOLEAN :
              IF ok
              THEN /\ task_state' = [task_state EXCEPT !["vad"] = "PENDING"]
                   /\ a_pc' = "wait_enhancement"
                   /\ UNCHANGED a_error
              ELSE /\ Caught("dispatch_failed", "vad")
                   /\ UNCHANGED task_state
    /\ UNCHANGED <<enable_enhancement, enhancement_level, task_result, results,
                   transcription_audio, quality_score, wait_outcome,
                   transcribe_calls, a_return, assessVars, docVars, authVars, fnVars>>

\* A worker finishes a dispatched task (audio_processing.py): it returns its
\* dict, or raises and the task ends in FAILURE.  Workers run on their own:
\* nothing in the orchestrator cancels a task.
TaskReturns(t) ==
    CASE t = "enhancement" -> PipeEnhancementResults
      [] t = "features" -> PipeFeatureResults
      [] t = "vad" -> PipeVadResults

WorkerFinish(t) ==
    /\ task_state[t] = "PENDING"
    /\ \/ \E r \in TaskReturns(t) :
            /\ task_state' = [task_state EXCEPT ![t] = "SUCCESS"]
            /\ task_result' = [task_result EXCEPT ![t] = r]
       \/ /\ task_state' = [task_state EXCEPT ![t] = "FAILURE"]
          /\ UNCHANGED task_result
    /\ UNCHANGED <<enable_enhancement, enhancement_level, a_pc, results,
                   transcription_audio, quality_score, wait_outcome,
                   transcribe_calls, a_error, a_return, assessVars, docVars, authVars, fnVars>>

\* AsyncResult.get(timeout=...): the task's return value once it succeeded,
\* its exception re-raised once it failed, TimeoutError while it is pending.
\* `next` is where the method continues after a value.
Wait(t, next) ==
    CASE task_state[t] = "SUCCESS" ->
            /\ results' = (t :> task_result[t]) @@ results
            /\ wait_outcome' = [wait_outcome EXCEPT ![t] = "result"]
            /\ a_pc' = next
            /\ UNCHANGED a_error
      [] task_state[t] = "FAILURE" ->
            /\ wait_outcome' = [wait_outcome EXCEPT ![t] = "failure"]
            /\ Caught("task_failed", t)
            /\ UNCHANGED results
      [] OTHER ->
            /\ wait_outcome' = [wait_outcome EXCEPT ![t] = "timeout"]
            /\ Caught("timeout", t)
            /\ UNCHANGED results

\* lines 75-85
WaitEnhancement ==
    /\ a_pc = "wait_enhancement"
    /\ IF enable_enhancement
       THEN /\ Wait("enhancement", "wait_features")
            /\ IF task_state["enhancement"] = "SUCCESS"
               THEN /\ transcription_audio' = task_result["enhancement"].enhanced_audio
                    /\ quality_score' =
                         task_result["enhancement"].processing_info.quality_score
               ELSE UNCHANGED <<transcription_audio, quality_score>>
       ELSE /\ transcription_audio' = "audio_data"
            /\ quality_score' = 50
            /\ a_pc' = "wait_features"
            /\ UNCHANGED <<results, wait_outcome, a_error>>
    /\ UNCHANGED <<enable_enhancement, enhancement_level, task_state, task_result,
                   transcribe_calls, a_return, assessVars, docVars, authVars, fnVars>>

\* lines 88-90
WaitFeatures ==
    /\ a_pc = "wait_features"
    /\ Wait("features", "wait_vad")
    /\ UNCHANGED <<enable_enhancement, enhancement_level, task_state, task_result,
                   transcription_audio, quality_score, transcribe_calls, a_return,
                   assessVars, docVars, authVars, fnVars>>

\* lines 93-95
WaitVad ==
    /\ a_pc = "wait_vad"
    /\ Wait("vad", "transcribe")
    /\ UNCHANGED <<enable_enhancement, enhancement_level, task_state, task_result,
                   transcription_audio, quality_score, transcribe_calls, a_return,
                   assessVars, docVars, authVars, fnVars>>

\* lines 97-104: _transcribe_audio(transcription_audio, filename, quality_score);
\* the capability answers or raises
Transcribe ==
    /\ a_pc = "transcribe"
    /\ transcribe_calls' =
         Append(transcribe_calls, TranscribeCall("main", transcription_audio, quality_score))
    /\ \/ \E conf \in PipeConfVals :
            /\ results' = ("transcription" :> TranscriptionDict(conf, quality_score)) @@ results
            /\ a_pc' = "assess"
            /\ UNCHANGED a_error
       \/ /\ Caught("transcription_failed", "main")
          /\ UNCHANGED results
    /\ UNCHANGED <<enable_enhancement, enhancement_level, task_state, task_result,
                   transcription_audio, quality_score, wait_outcome, a_return,
                   assessVars, docVars, authVars, fnVars>>

\* lines 114-125: the dict returned by the main path
MainReturn(quality_assessment) ==
    [transcription |-> results["transcription"],
     quality_assessment |-> quality_assessment,
     processing_details |->
        [enhancement_applied |-> enable_enhancement,
         enhancement_level |-> enhancement_level,
         audio_features |-> results["features"],
         enhancement_metrics |->
            IF "enhancement" \in DOMAIN results
            THEN results["enhancement"].quality_metrics
            ELSE [x \in {} |-> None]],
     recommendations |-> generate_recommendations(quality_assessment, results)]

\* lines 106-125
AssessAndReturn ==
    /\ a_pc = "assess"
    /\ \E qa \in calculate_quality_assessment(results["features"], results["vad"],
                                              Get(results, "enhancement", None),
                                              results["transcription"]) :
         a_return' = MainReturn(qa)
    /\ a_pc' = "returned"
    /\ UNCHANGED <<enable_enhancement, enhancement_level, task_state, task_result,
                   results, transcription_audio, quality_score, wait_outcome,
                   transcribe_calls, a_error, assessVars, docVars, authVars, fnVars>>

\* lines 132-137: the dict returned by the fallback
FallbackReturn(basic_transcription) ==
    [transcription |-> basic_transcription,
     quality_assessment |-> [overall_score |-> 30, issues |-> <<"processing_failed">>],
     processing_details |-> [enhancement_applied |-> FALSE, fallback_used |-> TRUE],
     error |-> a_error]

\* lines 127-140: _transcribe_audio(audio_data, filename, 0.3); if that raises
\* too the exception leaves the method
Fallback ==
    /\ a_pc = "fallback"
    /\ transcribe_calls' =
         Append(transcribe_calls, TranscribeCall("fallback", "audio_data", 30))
    /\ \/ \E conf \in PipeConfVals :
            /\ a_return' = FallbackReturn(TranscriptionDict(conf, 30))
            /\ a_pc' = "returned"
       \/ /\ a_pc' = "raised"
          /\ UNCHANGED a_return
    /\ UNCHANGED <<enable_enhancement, enhancement_level, task_state, task_result,
                   results, transcription_audio, quality_score, wait_outcome,
                   a_error, assessVars, docVars, authVars, fnVars>>

NextAudio ==
    \/ DispatchEnhancement
    \/ DispatchFeatures
    \/ DispatchVad
    \/ \E t \in Tasks : WorkerFinish(t)
    \/ WaitEnhancement
    \/ WaitFeatures
    \/ WaitVad
    \/ Transcribe
    \/ AssessAndReturn
    \/ Fallback

SpecAudio == InitAudio /\ [][NextAudio]_vars

(***************************************************************************)
(* _calculate_quality_assessment on its own: every combination of the      *)
(* bounded inputs, one call                                                *)
(***************************************************************************)
\* transcription results: _transcribe_audio's dict, or a dict without a
\* confidence_score (line 255 then reads the default 0.5)
AssessTranscriptions ==
    {TranscriptionDict(c, 50) : c \in ConfVals} \cup {[text |-> "text"]}

AssessInputs ==
    [features : {FeatureResult(snr, dr) : snr \in SnrVals, dr \in DrVals},
     vad_result : {VadResult(r) : r \in RatioVals},
     enhancement_result : {None} \cup {EnhancementResult(i, 90) : i \in ImprVals},
     transcription_result : AssessTranscriptions]

InitAssess ==
    /\ AudioIdle
    /\ AuthIdle
    /\ DocIdle
    /\ FnIdle
    /\ qa_in \in AssessInputs
    /\ qa_out = None

Assess ==
    /\ qa_in # None
    /\ qa_out = None
    /\ qa_out' \in calculate_quality_assessment(qa_in.features, qa_in.vad_result,
                                                qa_in.enhancement_result,
                                                qa_in.transcription_result)
    /\ UNCHANGED <<qa_in, audioVars, docVars, authVars, fnVars>>

NextAssess == Assess

SpecAssess == InitAssess /\ [][NextAssess]_vars

(***************************************************************************)
(* Properties of process_audio_with_enhancement                            *)
(***************************************************************************)
AudioEnded == a_pc \in {"returned", "raised"}
AssessmentKeys == {"overall_score", "grade", "component_scores", "issues"}
EnableSuggestion == "Enable audio enhancement for better results"

\* C3: every call ends by returning a result whose quality assessment has
\* overall_score, grade, component_scores and issues; it never ends by raising,
\* whichever task or capability call fails or times out.
C3_AlwaysCompleteAssessment ==
    AudioEnded =>
        /\ a_pc = "returned"
        /\ AssessmentKeys \subseteq DOMAIN a_return.quality_assessment

\* C5: with enhancement enabled, every transcription call made while an
\* enhancement task is dispatched comes after the wait on that task has ended
\* (with a result, a failure or a timeout).
C5_TranscriptionAfterEnhancementWait ==
    enable_enhancement =>
        \A i \in 1..Len(transcribe_calls) :
            transcribe_calls[i].enhancement_state # "NONE"
                => transcribe_calls[i].enhancement_wait # "not_waited"

\* C6: when the only failure of a call is a timeout on one task, the call
\* still returns through the main path (only that task's output is replaced),
\* and every sibling result already fetched is used in what is returned: the
\* enhanced audio is what was transcribed, the features are the ones reported.
C6_TimeoutIsLocal ==
    (a_pc = "returned" /\ a_error # None /\ a_error.kind = "timeout") =>
        /\ "fallback_used" \notin DOMAIN a_return.processing_details
        /\ "enhancement" \in DOMAIN results =>
              /\ a_return.processing_details.enhancement_applied
              /\ transcribe_calls[Len(transcribe_calls)].audio = "enhanced_audio"
        /\ "features" \in DOMAIN results =>
              /\ "audio_features" \in DOMAIN a_return.processing_details
              /\ a_return.processing_details.audio_features = results["features"]

\* C10: the returned recommendations hold the suggestion to enable audio
\* enhancement exactly when enhancement was not applied for the request and
\* overall_score < 0.6.
C10_EnableSuggestionIffNotApplied ==
    (a_pc = "returned" /\ "recommendations" \in DOMAIN a_return) =>
        (InList(EnableSuggestion, a_return.recommendations.technical_suggestions)
            <=> (/\ ~a_return.processing_details.enhancement_applied
                 /\ a_return.quality_assessment.overall_score < 60))

(***************************************************************************)
(* Properties of _calculate_quality_assessment                             *)
(***************************************************************************)
Assessed == qa_out # None
InSnr == qa_in.features.quality_indicators.snr_estimate
InDynamicRange == qa_in.features.quality_indicators.dynamic_range
InSpeechRatio == qa_in.vad_result.statistics.speech_ratio
InEnhanced == qa_in.enhancement_result # None
InHasConfidence == "confidence_score" \in DOMAIN qa_in.transcription_result

\* the claimed weighted sum of the returned component scores, in
\* ten-thousandths, enhancement_effectiveness counting 0.5 when absent
ClaimedSum(scores) ==
      30 * scores.snr + 25 * scores.speech_content + 15 * scores.dynamic_range
    + 20 * scores.transcription_confidence
    + 10 * (IF "enhancement_effectiveness" \in DOMAIN scores
            THEN scores.enhancement_effectiveness ELSE 50)

Clamp(x, lo, hi) == IF x < lo THEN lo ELSE IF x > hi THEN hi ELSE x

\* The binary float sum and the exact sum lead to the same rounding and the
\* same grade unless the exact sum is halfway between two hundredths or
\* equals a grade threshold; away from those sums a state of this model is
\* exactly what the code computes.
AwayFromTies(sum) == sum % 100 # 50 /\ sum \notin {4000, 6000, 8000}

C8_GradeMatchesScore ==
    (Assessed /\ AwayFromTies(ClaimedSum(qa_out.component_scores))) =>
        /\ qa_out.grade = "excellent" <=> qa_out.overall_score >= 80
        /\ qa_out.grade = "good" <=> (60 <= qa_out.overall_score /\ qa_out.overall_score < 80)
        /\ qa_out.grade = "fair" <=> (40 <= qa_out.overall_score /\ qa_out.overall_score < 60)
        /\ qa_out.grade = "poor" <=> qa_out.overall_score < 40

\* C9: component scores follow the band tables, each issue tag is raised
\* exactly in the lowest band, the confidence passes through, and
\* enhancement_effectiveness is scored exactly when enhancement ran.
C9_BandTables ==
    Assessed =>
        LET sc == qa_out.component_scores
            iss == qa_out.issues
        IN /\ sc.snr = (CASE InSnr > 20 -> 100
                          [] InSnr <= 20 /\ InSnr > 10 -> 70
                          [] InSnr <= 10 /\ InSnr > 0 -> 50
                          [] InSnr <= 0 -> 20)
           /\ InList("low_snr", iss) <=> InSnr <= 0
           /\ sc.speech_content = (CASE InSpeechRatio > 70 -> 100
                                     [] InSpeechRatio <= 70 /\ InSpeechRatio > 40 -> 80
                                     [] InSpeechRatio <= 40 /\ InSpeechRatio > 20 -> 60
                                     [] InSpeechRatio <= 20 -> 30)
           /\ InList("insufficient_speech", iss) <=> InSpeechRatio <= 20
           /\ sc.dynamic_range = (CASE InDynamicRange > 50 -> 100
                                    [] InDynamicRange <= 50 /\ InDynamicRange > 20 -> 70
                                    [] InDynamicRange <= 20 -> 40)
           /\ InList("low_dynamic_range", iss) <=> InDynamicRange <= 20
           /\ InHasConfidence =>
                sc.transcription_confidence = qa_in.transcription_result.confidence_score
           /\ InList("low_transcription_confidence", iss)
                <=> sc.transcription_confidence < 60
           /\ "enhancement_effectiveness" \in DOMAIN sc <=> InEnhanced
           /\ InEnhanced =>
                LET impr == qa_in.enhancement_result.quality_metrics.snr_improvement
                IN sc.enhancement_effectiveness =
                     (CASE impr > 5 -> 100 [] impr <= 5 /\ impr > 2 -> 80 [] impr <= 2 -> 50)

\* C9 witness: the two scenarios at once: speech_ratio 0.15 scored 0.3 with
\* insufficient_speech raised, snr_improvement 7 scored 1.0.
C9_Witness ==
    /\ Assessed
    /\ InSpeechRatio = 15
    /\ qa_out.component_scores.speech_content = 30
    /\ InList("insufficient_speech", qa_out.issues)
    /\ InEnhanced
    /\ qa_in.enhancement_result.quality_metrics.snr_improvement = 7
    /\ qa_out.component_scores.enhancement_effectiveness = 100

(***************************************************************************)
(* AdvancedDocumentProcessor (document_processor.py)                       *)
(*                                                                         *)
(* A text is the sequence of its whitespace-separated words (str.split()); *)
(* the empty string, the empty list and the empty dict are all <<>>, and   *)
(* all three are falsy in Python.                                           *)
(***************************************************************************)
\* database/models.py lines 13-19: the values of DocumentType
DocumentTypes ==
    {"meeting_minutes", "letter", "report", "announcement", "flyer", "custom"}

\* `v is None` for a value that may be a str or a list (a non-empty sequence
\* cannot be compared with the record None directly)
IsNone(v) == ToString(v) = ToString(None)

\* Python truthiness of an optional str / dict / list
Truthy(v) == ~IsNone(v) /\ v # <<>>

\* request.template_id is None or an int; 0 is falsy
TruthyId(template_id) == template_id # None /\ template_id.id # 0

\* str.title() of document_type.value
TitleCase(dt) ==
    CASE dt = "meeting_minutes" -> "Meeting_Minutes"
      [] dt = "letter" -> "Letter"
      [] dt = "report" -> "Report"
      [] dt = "announcement" -> "Announcement"
      [] dt = "flyer" -> "Flyer"
      [] dt = "custom" -> "Custom"

\* lines 160, 231, 244: f"{document_type.value.title()} Document"
DefaultTitle(dt) == <<TitleCase(dt), "Document">>

\* str.lower() of one word
Lower(w) ==
    CASE w = "John" -> "john"
      [] w = "Mary" -> "mary"
      [] w = "Dear" -> "dear"
      [] w = "Team" -> "team"
      [] w = "Friday" -> "friday"
      [] w = "Q3" -> "q3"
      [] w = "Action" -> "action"
      [] w = "Items" -> "items"
      [] w = "Content" -> "content"
      [] w = "Document" -> "document"
      [] w = "Minutes" -> "minutes"
      [] w = "Q&A" -> "q&a"
      [] w = "Q&amp;A" -> "q&amp;a"
      [] w \in {TitleCase(dt) : dt \in DocumentTypes} ->
            (CHOOSE dt \in DocumentTypes : TitleCase(dt) = w)
      [] OTHER -> w

\* set(text.lower().split())
LowerWords(text) == {Lower(w) : w \in {text[i] : i \in 1..Len(text)}}

\* the sequences that list every element of S once (list(set(...)) has no
\* fixed order: str hashes are salted per process)
Orderings(S) ==
    {f \in [1..Cardinality(S) -> S] : \A i, j \in 1..Cardinality(S) : f[i] = f[j] => i = j}

Prefix(seq, n) == SubSeq(seq, 1, IF Len(seq) < n THEN Len(seq) ELSE n)

Max(a, b) == IF a > b THEN a ELSE b
Min(a, b) == IF a < b THEN a ELSE b

\* the elements of seq that satisfy Keep, in order
Filter(seq, keep) == SelectSeq(seq, LAMBDA x : x \in keep)

\* lines 531-537: _extract_topics_simple
extract_topics_simple(text) ==
    Prefix(Filter(<<"meeting", "project", "team", "discussion", "plan">>, LowerWords(text)), 5)

\* line 542: the words matching [A-Z][a-z]+
CapitalizedWords == {"John", "Mary", "Dear", "Team", "Friday"}

\* lines 539-543: _extract_participants_simple: list(set(potential_names))[:10]
extract_participants_simple(text) ==
    {Prefix(o, 10) : o \in Orderings({text[i] : i \in 1..Len(text)} \cap CapitalizedWords)}

\* lines 547-551: the words matching one of the date patterns
DateWords == {"3/4/2025"}

\* lines 545-555: _extract_dates_simple
extract_dates_simple(text) == Prefix(Filter(text, DateWords), 5)

\* line 159: transcription[:200] + "..." (the slice counted in words here)
KeyPoint(text) == Prefix(text, 200) \o <<"...">>

\* lines 151-161: the fallback analyses (one per ordering of the participants)
FallbackAnalysis(transcription, document_type) ==
    {[main_topics |-> extract_topics_simple(transcription),
      participants |-> ps,
      dates_times |-> extract_dates_simple(transcription),
      action_items |-> <<>>,
      contact_info |-> <<>>,
      tone |-> "professional",
      structure_suggestions |-> <<"Introduction", "Main Content", "Conclusion">>,
      key_points |-> <<KeyPoint(transcription)>>,
      document_title_suggestions |-> <<DefaultTitle(document_type)>>] :
        ps \in extract_participants_simple(transcription)}

\* a reading time rounded to the nearest minute
ReadingMinutesRounded(word_count) == Max(1, (word_count + 100) \div 200)

\* line 240: max(1, len(request.transcription_text.split()) // 200)
ReadingMinutes(word_count) == Max(1, word_count \div 200)

\* lines 230-248: the fallback structured content
FallbackContent(req) ==
    [title |-> DefaultTitle(req.document_type),
     sections |-> <<[heading |-> <<"Content">>, content |-> req.transcription_text]>>,
     metadata |->
        [word_count |-> Len(req.transcription_text),
         estimated_reading_time |-> [minutes |-> ReadingMinutes(Len(req.transcription_text))],
         formality_level |-> "professional"],
     template_variables |->
        [title |-> DefaultTitle(req.document_type),
         content |-> req.transcription_text,
         date |-> <<"<today>">>]]

(***************************************************************************)
(* The text-generation capability and json.loads                           *)
(***************************************************************************)
\* a JSON array (a Python list after json.loads)
JsonList == [json_list |-> <<>>]
IsDict(v) == v # None /\ "json_list" \notin DOMAIN v

\* what generate_completion can do: raise, or return a string that is prose,
\* malformed JSON, a JSON document, or a JSON object inside prose / a fence
Raises == [kind |-> "raise"]
Prose == [kind |-> "prose"]
MalformedJson == [kind |-> "malformed_json"]
Json(v) == [kind |-> "json", value |-> v]
JsonInProse(v) == [kind |-> "json_in_prose", value |-> v]

\* lines 145, 224: json.loads(response) parses the whole string or raises
JsonLoads(response) ==
    IF response.kind = "json"
    THEN [raised |-> FALSE, value |-> response.value]
    ELSE [raised |-> TRUE]

(***************************************************************************)
(* Template rendering (template_engine.py) as stage 3 uses it               *)
(***************************************************************************)
\* A template's markup is a sequence of parts: [lit |-> word] is literal
\* text, [var |-> name] is {{ name }}, [func |-> "format_date", var |-> name]
\* is {{ format_date(name) }} and [filter |-> "markdown", var |-> name] is
\* {{ name | markdown }}.  SyntaxErrorTemplate is markup Jinja cannot parse.
SyntaxErrorTemplate == <<[syntax_error |-> TRUE]>>

\* markupsafe.escape of one word (select_autoescape's default_for_string
\* turns autoescaping on for env.from_string templates)
Escape(w) ==
    CASE w = "Q&A" -> "Q&amp;A"
      [] w = "<p>" -> "&lt;p&gt;"
      [] w = "</p>" -> "&lt;/p&gt;"
      [] OTHER -> w

EscapeText(text) == [i \in 1..Len(text) |-> Escape(text[i])]

\* the words datetime.fromisoformat accepts, and their strftime("%B %d, %Y")
IsoDates == {"2025-03-04"}
Strftime(w) == IF w = "2025-03-04" THEN <<"March", "04,", "2025">> ELSE <<w>>

\* template_engine.py lines 103-112: format_date(date_str) of a str.  A value
\* that does not parse is returned as it came (the bare except of line 111).
format_date(date_str) ==
    IF Len(date_str) = 1 /\ date_str[1] \in IsoDates THEN Strftime(date_str[1])
    ELSE date_str

\* template_engine.py lines 192-200: markdown_to_html(text) of a str
markdown_to_html(text) == <<"<p>">> \o text \o <<"</p>">>

\* one {{ ... }} of template.render(**render_vars).  A name that is not bound
\* evaluates to jinja2's Undefined: it prints as '', format_date hands it
\* back from its except branch, and re.sub of markdown_to_html raises
\* TypeError on it (lines 194-199 have no try).
RenderPart(p, render_vars) ==
    LET bound == "var" \in DOMAIN p /\ p.var \in DOMAIN render_vars
    IN IF "lit" \in DOMAIN p THEN [raised |-> FALSE, value |-> <<p.lit>>]
       ELSE IF "func" \in DOMAIN p
       THEN [raised |-> FALSE,
             value |-> IF bound THEN EscapeText(format_date(render_vars[p.var])) ELSE <<>>]
       ELSE IF "filter" \in DOMAIN p
       THEN IF bound
            THEN [raised |-> FALSE,
                  value |-> EscapeText(markdown_to_html(render_vars[p.var]))]
            ELSE [raised |-> TRUE, error |-> "TypeError"]
       ELSE [raised |-> FALSE,
             value |-> IF bound THEN EscapeText(render_vars[p.var]) ELSE <<>>]

\* template.render(**render_vars): the parts in order; the first part that
\* raises ends the rendering
RECURSIVE RenderParts(_, _)
RenderParts(parts, render_vars) ==
    IF parts = <<>> THEN [raised |-> FALSE, value |-> <<>>]
    ELSE LET out == RenderPart(Head(parts), render_vars)
             rest == RenderParts(Tail(parts), render_vars)
         IN IF out.raised THEN out
            ELSE IF rest.raised THEN rest
            ELSE [raised |-> FALSE, value |-> out.value \o rest.value]

\* the readings of datetime.now() a call can see
Clock == {1, 2}

\* template_engine.py lines 251-255: the clock-derived common variables
common_vars(now) ==
    [current_date |-> <<"date@" \o ToString(now)>>,
     current_time |-> <<"time@" \o ToString(now)>>,
     current_year |-> <<"year@" \o ToString(now)>>]

\* DatabaseTemplateLoader.get_source, lines 47-67: _get_template_by_id and
\* _get_template_by_type_and_name are stubs that return None, so every
\* lookup ends in TemplateNotFound
LoaderFinds(name) == FALSE

\* template_engine.py lines 237-248: which keyword argument the template is
\* taken from
TemplateSource(args) ==
    IF Truthy(Get(args, "template_content", None)) THEN "template_content"
    ELSE IF TruthyId(Get(args, "template_id", None)) THEN "template_id"
    ELSE IF "document_type" \in DOMAIN args THEN "document_type"
    ELSE "none"

\* a render_template that adds the common variables to the caller's dict
VariablesUpdatedInPlace(variables, render_vars) == render_vars

\* the caller's mapping once render_template has returned: line 235 rebinds
\* the local name and line 258 builds a new dict, so it is as it was passed
VariablesAfterRender(variables, render_vars) == variables

\* template_engine.py lines 226-267: render_template; args holds the keyword
\* arguments the caller passed, now is what datetime.now() reads.  Beside
\* the outcome, the result records which argument the template came from,
\* the variables bound for rendering and the caller's mapping afterwards.
render_template(args, variables, now) ==
    LET vs == IF Truthy(variables) THEN variables ELSE <<>>
        render_vars == vs @@ common_vars(now)
        source == TemplateSource(args)
        ghost == [source |-> source, render_vars |-> render_vars,
                  variables |-> VariablesAfterRender(variables, render_vars)]
        unbound == [source |-> source, render_vars |-> None, variables |-> variables]
    IN IF source = "template_content"
       THEN IF args.template_content = SyntaxErrorTemplate
            THEN [raised |-> TRUE, error |-> "TemplateSyntaxError"] @@ unbound
            ELSE RenderParts(args.template_content, render_vars) @@ ghost
       ELSE IF source = "template_id"
       THEN IF LoaderFinds(args.template_id) THEN [raised |-> FALSE, value |-> <<>>] @@ ghost
            ELSE [raised |-> TRUE, error |-> "TemplateNotFound"] @@ unbound
       ELSE IF source = "document_type"
       THEN IF LoaderFinds(args.document_type) THEN [raised |-> FALSE, value |-> <<>>] @@ ghost
            ELSE [raised |-> TRUE, error |-> "TemplateNotFound"] @@ unbound
       ELSE [raised |-> TRUE, error |-> "ValueError"] @@ unbound

(***************************************************************************)
(* Stage 3: _apply_template                                                *)
(***************************************************************************)
\* lines 353-371: _format_basic_document, as the words of the joined text
RECURSIVE FormatSections(_)
FormatSections(sections) ==
    IF sections = <<>> THEN <<>>
    ELSE LET heading == Get(Head(sections), "heading", <<>>)
             content == Get(Head(sections), "content", <<>>)
         IN (IF Truthy(heading) THEN <<"##">> \o heading ELSE <<>>)
            \o content \o FormatSections(Tail(sections))

format_basic_document(content) ==
    LET title == Get(content, "title", <<"Document">>)
        sections == Get(content, "sections", <<>>)
    IN IF IsNone(sections)
       THEN [raised |-> TRUE, error |-> "TypeError"]
       ELSE [raised |-> FALSE, value |-> <<"#">> \o title \o FormatSections(sections)]

\* a stage 3 that looks at template_id before custom_template
TemplateArgsIdFirst(req) ==
    IF TruthyId(req.template_id) THEN [template_id |-> req.template_id]
    ELSE IF Truthy(req.custom_template) THEN [template_content |-> req.custom_template]
    ELSE [document_type |-> req.document_type]

\* lines 265-282: the keyword arguments handed to render_template
TemplateArgs(req) ==
    IF Truthy(req.custom_template) THEN [template_content |-> req.custom_template]
    ELSE IF TruthyId(req.template_id) THEN [template_id |-> req.template_id]
    ELSE [document_type |-> req.document_type]

\* a merge in which the stage-2 value survives
MergeContentWins(template_variables, additional_context) ==
    template_variables @@ additional_context

\* line 262: template_variables.update(request.additional_context)
MergeContext(template_variables, additional_context) ==
    additional_context @@ template_variables

\* lines 250-289.  The result says whether an exception left the method,
\* the formatted text, the structured content after the in-place
\* template_variables.update of line 262, and the calls made to the engine
\* (arguments and what render_template did with them).
apply_template(req, content, now) ==
    IF ~IsDict(content)
    THEN [raised |-> TRUE, error |-> "AttributeError", content |-> content,
          engine_calls |-> <<>>]
    ELSE
    LET tv == Get(content, "template_variables", <<>>)
        merge == Truthy(req.additional_context)
    IN IF merge /\ tv = None
       THEN [raised |-> TRUE, error |-> "AttributeError", content |-> content,
             engine_calls |-> <<>>]
       ELSE
       LET variables == IF merge THEN MergeContext(tv, req.additional_context) ELSE tv
           content2 == IF merge /\ "template_variables" \in DOMAIN content
                       THEN [content EXCEPT !["template_variables"] = variables]
                       ELSE content
           rendered == render_template(TemplateArgs(req), variables, now)
           engine_calls == <<[args |-> TemplateArgs(req), variables |-> variables,
                              result |-> rendered]>>
           basic == format_basic_document(content2)
       IN IF ~rendered.raised
          THEN [raised |-> FALSE, value |-> rendered.value, content |-> content2,
                rendered |-> TRUE, engine_calls |-> engine_calls]
          ELSE IF basic.raised
          THEN [raised |-> TRUE, error |-> basic.error, content |-> content2,
                engine_calls |-> engine_calls]
          ELSE [raised |-> FALSE, value |-> basic.value, content |-> content2,
                rendered |-> FALSE, engine_calls |-> engine_calls]

(***************************************************************************)
(* Stage 4: _post_process_document                                         *)
(***************************************************************************)
\* lines 393-400
CompletenessScore(n) == IF n >= 3 THEN 30 ELSE IF n >= 2 THEN 20 ELSE IF n >= 1 THEN 10 ELSE 0

\* lines 403-409
WordCountScore(word_count) ==
    IF 100 <= word_count /\ word_count <= 2000 THEN 20
    ELSE IF (50 <= word_count /\ word_count <= 100)
            \/ (2000 <= word_count /\ word_count <= 3000) THEN 15
    ELSE 10

\* a structure score that counts an empty list of sections as fully headed
StructureScoreVacuous(content, sections) ==
      (IF "title" \in DOMAIN content /\ Truthy(content.title) THEN 10 ELSE 0)
    + (IF \A i \in 1..Len(sections) : Truthy(Get(sections[i], "heading", None))
       THEN 15 ELSE 0)

\* lines 412-415
StructureScore(content, sections) ==
      (IF "title" \in DOMAIN content /\ Truthy(content.title) THEN 10 ELSE 0)
    + (IF Len(sections) > 0
          /\ \A i \in 1..Len(sections) : Truthy(Get(sections[i], "heading", None))
       THEN 15 ELSE 0)

\* lines 418-421
TemplateScore(req) ==
    IF TruthyId(req.template_id) \/ Truthy(req.custom_template) THEN 15 ELSE 5

\* lines 425-431: overlap > len * 0.3, > len * 0.1, on whole numbers
RelevanceScore(transcription_text, formatted) ==
    LET transcription_words == LowerWords(transcription_text)
        overlap == Cardinality(transcription_words \cap LowerWords(formatted))
    IN IF 10 * overlap > 3 * Cardinality(transcription_words) THEN 10
       ELSE IF 10 * overlap > Cardinality(transcription_words) THEN 5
       ELSE 0

\* lines 384-433: _calculate_quality_score, in hundredths
calculate_quality_score(content, formatted, req) ==
    LET sections == Get(content, "sections", <<>>)
    IN IF IsNone(sections)
       THEN [raised |-> TRUE, error |-> "TypeError"]
       ELSE [raised |-> FALSE,
             value |-> Min(100, CompletenessScore(Len(sections))
                                + WordCountScore(Len(formatted))
                                + StructureScore(content, sections)
                                + TemplateScore(req)
                                + RelevanceScore(req.transcription_text, formatted))]

\* line 458: "action" in heading.lower()
MentionsAction(heading) ==
    \E i \in 1..Len(heading) : Lower(heading[i]) \in {"action", "actions"}

\* line 462: any(<bool>) -- the argument is a bool, not an iterable, so the
\* call raises TypeError whatever the content
LetterSalutationCheck(formatted) == [raised |-> TRUE, error |-> "TypeError"]

\* lines 435-465: _generate_suggestions
generate_suggestions(content, formatted, req) ==
    LET word_count == Len(formatted)
        sections == Get(content, "sections", <<>>)
        length == IF word_count < 50
                  THEN <<"Consider adding more detail to make the document more comprehensive">>
                  ELSE IF word_count > 2000
                  THEN <<"Consider condensing the content for better readability">>
                  ELSE <<>>
    IN IF IsNone(sections)
       THEN [raised |-> TRUE, error |-> "TypeError"]
       ELSE
       LET structure == IF Len(sections) < 2
                        THEN <<"Add more sections to improve document structure">>
                        ELSE <<>>
       IN IF req.document_type = "meeting_minutes"
          THEN [raised |-> FALSE,
                value |-> length \o structure \o
                    (IF \E i \in 1..Len(sections) :
                            MentionsAction(Get(sections[i], "heading", <<>>))
                     THEN <<>>
                     ELSE <<"Consider adding an action items section">>)]
          ELSE IF req.document_type = "letter"
          THEN LET check == LetterSalutationCheck(formatted)
               IN IF check.raised THEN check
                  ELSE [raised |-> FALSE,
                        value |-> length \o structure \o
                            (IF check.value THEN <<>>
                             ELSE <<"Consider adding a proper salutation">>)]
          ELSE [raised |-> FALSE, value |-> length \o structure]

\* lines 373-382: _extract_plain_content
RECURSIVE JoinContents(_)
JoinContents(sections) ==
    IF sections = <<>> THEN <<>>
    ELSE Get(Head(sections), "content", <<>>) \o JoinContents(Tail(sections))

extract_plain_content(content) == JoinContents(Get(content, "sections", <<>>))

\* lines 291-325: _post_process_document
post_process_document(content, formatted, req) ==
    LET score == calculate_quality_score(content, formatted, req)
        suggestions == generate_suggestions(content, formatted, req)
    IN IF score.raised THEN score
       ELSE IF suggestions.raised THEN suggestions
       ELSE [raised |-> FALSE,
             value |->
               [document_content |-> extract_plain_content(content),
                formatted_content |-> formatted,
                metadata |->
                    [document_type |-> req.document_type,
                     template_used |-> (req.template_id # None \/ ~IsNone(req.custom_template)),
                     processing_version |-> "2.0"]
                    @@ Get(content, "metadata", <<>>),
                quality_score |-> score.value,
                suggestions |-> suggestions.value,
                template_variables |-> Get(content, "template_variables", <<>>)]]

(***************************************************************************)
(* generate_document: the four stages of one call                          *)
(***************************************************************************)
Transcripts ==
    {<<>>,
     <<"team", "meeting", "John", "Mary">>,
     <<"Dear", "John", "plan", "3/4/2025">>}

\* "Dear {{ title }}{{ missing_var }} {{ content }}"
GreetingTemplate ==
    <<[lit |-> "Dear"], [var |-> "title"], [var |-> "missing_var"], [var |-> "content"]>>

\* the values a request's optional fields are drawn from
TemplateIds == <<None, [id |-> 0], [id |-> 7]>>
CustomTemplates == <<None, <<>>, GreetingTemplate, SyntaxErrorTemplate>>
AdditionalContexts == <<None, <<>>, [title |-> <<"Q&A">>]>>

\* a stage-1 answer that follows the analysis schema
AnalysisObject == [main_topics |-> <<"team">>, tone |-> "formal"]

\* stage-2 answers: an object of the schema, and objects whose sections or
\* template_variables are missing or null
ContentFull ==
    [title |-> <<"Minutes">>,
     sections |-> <<[heading |-> <<"Action", "Items">>, content |-> <<"John", "team">>],
                    [heading |-> <<>>, content |-> <<"plan">>]>>,
     metadata |-> [word_count |-> 3],
     template_variables |-> [title |-> <<"Minutes">>]]
ContentNoSections ==
    [title |-> <<"Minutes">>, metadata |-> [word_count |-> 3],
     template_variables |-> [title |-> <<"Minutes">>]]
ContentNullSections == [ContentFull EXCEPT !.sections = None]
ContentNoVariables ==
    [title |-> <<"Minutes">>, sections |-> ContentFull.sections,
     metadata |-> [word_count |-> 3]]
ContentNullVariables == [ContentFull EXCEPT !.template_variables = None]

\* the capability is an injected collaborator: each call may raise or return
\* any string
Stage1Responses ==
    <<Raises, Prose, MalformedJson, Json(AnalysisObject), Json(JsonList), Json(None),
      JsonInProse(AnalysisObject)>>
Stage2Responses ==
    <<Raises, Prose, MalformedJson, Json(JsonList), Json(None), JsonInProse(ContentFull),
      Json(ContentFull), Json(ContentNoSections), Json(ContentNullSections),
      Json(ContentNoVariables), Json(ContentNullVariables)>>

StageStart(stage, input) == [stage |-> stage, event |-> "start", input |-> input]
StageEnd(stage, output) == [stage |-> stage, event |-> "end", output |-> output]

\* one entry of the history of capability calls: the stage that called, the
\* length of stage_log at the call, and the answer once it has arrived
CapabilityCall(stage, at) == [stage |-> stage, at |-> at, response |-> None]
Answered(calls, r) == [calls EXCEPT ![Len(calls)].response = r]

InitDoc ==
    /\ AudioIdle
    /\ AuthIdle
    /\ AssessIdle
    /\ FnIdle
    /\ \E tt \in Transcripts, dt \in DocumentTypes, ti \in DOMAIN TemplateIds,
          ct \in DOMAIN CustomTemplates, ac \in DOMAIN AdditionalContexts :
         request = [transcription_text |-> tt,
                    document_type |-> dt,
                    template_id |-> TemplateIds[ti],
                    custom_template |-> CustomTemplates[ct],
                    additional_context |-> AdditionalContexts[ac]]
    /\ d_pc = "analyze"
    /\ capability_calls = <<>>
    /\ analysis_result = None
    /\ structured_content = None
    /\ formatted_content = None
    /\ final_result = None
    /\ d_error = None
    /\ stage_log = <<>>

\* a processor that runs the failed stage again
RetryAfterCaughtFailure(stage) == stage

\* where generate_document continues once stage `stage` has caught a failure
\* of its capability call (lines 148-161 and 227-248 return the fallback; no
\* second attempt)
AfterCaughtFailure(stage) ==
    IF stage = "analyze" THEN "generate" ELSE "apply_template"

\* lines 68-73, 106-141: stage 1 builds its prompt and awaits the capability
AnalyzeCall ==
    /\ d_pc = "analyze"
    /\ stage_log' = Append(stage_log, StageStart("analyze", request.transcription_text))
    /\ capability_calls' =
         Append(capability_calls, CapabilityCall("analyze", Len(stage_log) + 1))
    /\ d_pc' = "analyze_await"
    /\ UNCHANGED <<request, analysis_result, structured_content, formatted_content,
                   final_result, d_error, audioVars, assessVars, fnVars, authVars>>

\* lines 143-161: the answer is parsed and returned, or any exception
\* (capability error, JSONDecodeError) gives the local extraction
AnalyzeResume ==
    /\ d_pc = "analyze_await"
    /\ \E i \in DOMAIN Stage1Responses :
         LET r == Stage1Responses[i]
                 parsed == IF r = Raises THEN [raised |-> TRUE] ELSE JsonLoads(r)
         IN /\ capability_calls' = Answered(capability_calls, r)
            /\ IF parsed.raised
               THEN /\ analysis_result' \in
                         FallbackAnalysis(request.transcription_text, request.document_type)
                    /\ d_pc' = AfterCaughtFailure("analyze")
               ELSE /\ analysis_result' = parsed.value
                    /\ d_pc' = "generate"
    /\ stage_log' = Append(stage_log, StageEnd("analyze", analysis_result'))
    /\ UNCHANGED <<request, structured_content, formatted_content, final_result,
                   d_error, audioVars, assessVars, fnVars, authVars>>

\* lines 75-79, 170-221: stage 2 builds its prompt from the request and the
\* analysis and awaits the capability
GenerateCall ==
    /\ d_pc = "generate"
    /\ stage_log' = Append(stage_log, StageStart("generate", analysis_result))
    /\ capability_calls' =
         Append(capability_calls, CapabilityCall("generate", Len(stage_log) + 1))
    /\ d_pc' = "generate_await"
    /\ UNCHANGED <<request, analysis_result, structured_content, formatted_content,
                   final_result, d_error, audioVars, assessVars, fnVars, authVars>>

\* lines 223-248
GenerateResume ==
    /\ d_pc = "generate_await"
    /\ \E i \in DOMAIN Stage2Responses :
         LET r == Stage2Responses[i]
                 parsed == IF r = Raises THEN [raised |-> TRUE] ELSE JsonLoads(r)
         IN /\ capability_calls' = Answered(capability_calls, r)
            /\ IF parsed.raised
               THEN /\ structured_content' = FallbackContent(request)
                    /\ d_pc' = AfterCaughtFailure("generate")
               ELSE /\ structured_content' = parsed.value
                    /\ d_pc' = "apply_template"
    /\ stage_log' = Append(stage_log, StageEnd("generate", structured_content'))
    /\ UNCHANGED <<request, analysis_result, formatted_content, final_result,
                   d_error, audioVars, assessVars, fnVars, authVars>>

\* lines 81-85 and 95-97: stage 3; an exception that leaves _apply_template
\* is logged and re-raised by generate_document
ApplyTemplate ==
    /\ d_pc = "apply_template"
    /\ \E now \in Clock :
       LET r == apply_template(request, structured_content, now)
       IN /\ structured_content' = r.content
          /\ IF r.raised
             THEN /\ d_error' = r.error
                  /\ d_pc' = "raised"
                  /\ stage_log' =
                       Append(stage_log, StageStart("apply_template", structured_content))
                  /\ UNCHANGED formatted_content
             ELSE /\ formatted_content' = r.value
                  /\ d_pc' = "post_process"
                  /\ stage_log' =
                       stage_log \o
                       <<StageStart("apply_template", structured_content),
                         StageEnd("apply_template",
                                  [formatted |-> r.value, content |-> r.content])>>
                  /\ UNCHANGED d_error
    /\ UNCHANGED <<request, capability_calls, analysis_result, final_result,
                   audioVars, assessVars, fnVars, authVars>>

\* lines 87-97: stage 4
PostProcess ==
    /\ d_pc = "post_process"
    /\ LET r == post_process_document(structured_content, formatted_content, request)
           start == StageStart("post_process",
                               [formatted |-> formatted_content,
                                content |-> structured_content])
       IN IF r.raised
          THEN /\ d_error' = r.error
               /\ d_pc' = "raised"
               /\ stage_log' = Append(stage_log, start)
               /\ UNCHANGED final_result
          ELSE /\ final_result' = r.value
               /\ d_pc' = "returned"
               /\ stage_log' = stage_log \o <<start, StageEnd("post_process", r.value)>>
               /\ UNCHANGED d_error
    /\ UNCHANGED <<request, capability_calls, analysis_result, structured_content,
                   formatted_content, audioVars, assessVars, fnVars, authVars>>

NextDoc ==
    \/ AnalyzeCall
    \/ AnalyzeResume
    \/ GenerateCall
    \/ GenerateResume
    \/ ApplyTemplate
    \/ PostProcess

SpecDoc == InitDoc /\ [][NextDoc]_vars

(***************************************************************************)
(* Properties of generate_document                                         *)
(***************************************************************************)
DocEnded == d_pc \in {"returned", "raised"}

\* every capability call made so far raised
CapabilityAlwaysRaised ==
    \A i \in 1..Len(capability_calls) : capability_calls[i].response = Raises

\* C1: if the capability raises on every call, generate_document does not
\* raise; it returns a result built from non-empty sections, with
\* quality_score >= 0.
C1_FallbackGuarantee ==
    (DocEnded /\ CapabilityAlwaysRaised) =>
        /\ d_pc = "returned"
        /\ Len(structured_content.sections) > 0
        /\ final_result.quality_score >= 0

\* C2: whatever the capability does in stage 1 or stage 2, generate_document
\* never raises to the caller.
C2_StageFailuresAbsorbed == d_pc # "raised"

\* the stages in the order generate_document runs them
StageOrder == <<"analyze", "generate", "apply_template", "post_process">>

\* the k-th entry a run of the four stages, one after the other, logs
ExpectedEntry(k) ==
    [stage |-> StageOrder[(k + 1) \div 2],
     event |-> IF k % 2 = 1 THEN "start" ELSE "end"]

\* C4: the stages run in the order analyze, generate, apply template,
\* post-process, each starting after the previous one has ended and on its
\* output; the capability is called at most once in stage 1, at most once in
\* stage 2, each call inside its stage, and never in stages 3 and 4.
C4_StagesSequential ==
    /\ Len(stage_log) <= 2 * Len(StageOrder)
    /\ \A k \in 1..Len(stage_log) :
         /\ stage_log[k].stage = ExpectedEntry(k).stage
         /\ stage_log[k].event = ExpectedEntry(k).event
    /\ stage_log # <<>> => stage_log[1].input = request.transcription_text
    /\ \A k \in 2..Len(stage_log) :
         stage_log[k].event = "start" => stage_log[k].input = stage_log[k - 1].output
    /\ \A i \in 1..Len(capability_calls) :
         LET call == capability_calls[i]
         IN /\ call.stage \in {"analyze", "generate"}
            /\ stage_log[call.at].stage = call.stage
            /\ stage_log[call.at].event = "start"
            /\ \A j \in 1..Len(capability_calls) :
                 capability_calls[j].stage = call.stage => j = i

\* C4 witness: a finished run in which both capability calls failed (one
\* raised, one answered prose) and all four stages ran to their end.
C4_Witness ==
    /\ d_pc = "returned"
    /\ Len(stage_log) = 2 * Len(StageOrder)
    /\ Len(capability_calls) = 2
    /\ capability_calls[1].response = Raises
    /\ capability_calls[2].response = Prose

(***************************************************************************)
(* calculate_snr (audio_processing.py lines 267-293)                       *)
(*                                                                         *)
(* Samples are integers.  Powers are kept as exact fractions: the mean     *)
(* square of a frame is its sum of squares over frame_size, the signal     *)
(* power the sum of all squares over len(audio).  The returned decibels    *)
(* are kept as a pair [lo, hi] of whole dB that encloses the float the     *)
(* code returns; lo = hi where the code returns a literal or the clamp     *)
(* decides.                                                                *)
(***************************************************************************)
\* n copies of the sample v
Run(v, n) == [i \in 1..n |-> v]

\* sum of audio[i]**2 for i in from..to (1-based, inclusive)
RECURSIVE SumSquares(_, _, _)
SumSquares(audio, from, to) ==
    IF from > to THEN 0
    ELSE IF from = to THEN audio[from] * audio[from]
    ELSE LET mid == (from + to) \div 2
         IN SumSquares(audio, from, mid) + SumSquares(audio, mid + 1, to)

\* line 273
FrameSize(audio) == Len(audio) \div 100

\* line 278: range(0, len(audio) - frame_size, frame_size), as 0-based starts
FrameStarts(audio) ==
    {i \in 0..(Len(audio) - FrameSize(audio) - 1) : i % FrameSize(audio) = 0}

\* lines 279-280: the sum of squares of each frame, in frame order; the
\* frame's RMS is the square root of this sum over frame_size
FrameSquares(audio) ==
    [k \in 1..Cardinality(FrameStarts(audio)) |->
        SumSquares(audio, (k - 1) * FrameSize(audio) + 1, k * FrameSize(audio))]

\* the element at 0-based position j of sorted(vals)
KthSmallest(vals, j) ==
    CHOOSE x \in {vals[i] : i \in DOMAIN vals} :
        /\ Cardinality({i \in DOMAIN vals : vals[i] < x}) <= j
        /\ j < Cardinality({i \in DOMAIN vals : vals[i] <= x})

\* line 285: np.percentile(frame_rms, 10)**2 as a fraction over
\* 100 * frame_size, given as bounds [lo, hi] on its numerator.  numpy
\* interpolates linearly between the sorted RMS values at positions
\* floor(h) and floor(h) + 1 for h = 0.1 * (n - 1); the square of the
\* interpolated value is exact when h is whole or the lower value is 0 or
\* the two values agree, and lies between the two mean squares otherwise.
NoiseEstimate(audio) ==
    LET squares == FrameSquares(audio)
        n == Len(squares)
        below == (n - 1) \div 10
        tenths == (n - 1) % 10
        s_lo == KthSmallest(squares, below)
        s_hi == IF tenths = 0 THEN s_lo ELSE KthSmallest(squares, below + 1)
    IN IF tenths = 0 \/ s_lo = s_hi THEN [lo |-> 100 * s_lo, hi |-> 100 * s_lo]
       ELSE IF s_lo = 0 THEN [lo |-> tenths * tenths * s_hi, hi |-> tenths * tenths * s_hi]
       ELSE [lo |-> 100 * s_lo, hi |-> 100 * s_hi]

RECURSIVE Pow10(_)
Pow10(k) == IF k = 0 THEN 1 ELSE 10 * Pow10(k - 1)

\* 10**b <= p / q, for p, q > 0 and -9 <= b <= 9
AtLeastPow10(p, q, b) ==
    IF b >= 0 THEN Pow10(b) <= p \div q
    ELSE q \div p + (IF q % p = 0 THEN 0 ELSE 1) <= Pow10(-b)

\* floor(log10(p / q)) for p, q > 0 with 10**-9 <= p / q < 10**9
FloorLog10(p, q) == CHOOSE b \in -9..8 : AtLeastPow10(p, q, b) /\ ~AtLeastPow10(p, q, b + 1)

\* a clamp that is not applied
SnrUnclamped(snr_db) == snr_db

\* line 293: max(-50.0, min(50.0, snr_db))
ClampSnr(snr_db) == Max(-50, Min(50, snr_db))

\* a float known exactly
ExactDb(x) == [lo |-> x, hi |-> x]

\* lines 267-293
calculate_snr(audio) ==
    IF FrameSize(audio) < 1 THEN ExactDb(0)
    ELSE IF FrameStarts(audio) = {} THEN ExactDb(0)
    ELSE
    LET signal == SumSquares(audio, 1, Len(audio))     \* signal_power * len(audio)
        noise == NoiseEstimate(audio)                  \* noise_estimate * 100 * frame_size
    IN IF noise.hi = 0 THEN ExactDb(50)
       ELSE IF signal = 0 THEN ExactDb(ClampSnr(-50))
       ELSE
       \* snr_linear = (signal * 100 * frame_size) / (len(audio) * noise);
       \* 10 * log10 of it lies within the whole bels around it, and float
       \* rounding within 1 dB of that
       LET p == signal * 100 * FrameSize(audio)
       IN [lo |-> ClampSnr(10 * FloorLog10(p, Len(audio) * noise.hi) - 1),
           hi |-> ClampSnr(10 * FloorLog10(p, Len(audio) * noise.lo) + 11)]

\* sample sequences: short ones, all-zero and constant ones, loud signals
\* over a quiet floor, and longer ones whose frames hold several samples
SnrAudios ==
    {Run(a, n1) \o Run(b, n2) \o Run(c, n3) :
        a \in {0, 1, 336}, b \in {0, 1, -2, 336}, c \in {0, 1},
        n1 \in {0, 9, 10, 11, 60}, n2 \in {0, 1, 50, 89, 90}, n3 \in {0, 1}}
    \cup
    {Run(a, n1) \o Run(b, n2) :
        a \in {0, 1, 3}, b \in {0, 1, 3}, n1 \in {100, 120}, n2 \in {100, 130, 199}}

InitSnr ==
    /\ AudioIdle
    /\ AuthIdle
    /\ AssessIdle
    /\ DocIdle
    /\ f_name = "calculate_snr"
    /\ f_args \in {[audio |-> a] : a \in SnrAudios}
    /\ f_return = None

CalculateSnr ==
    /\ f_name = "calculate_snr"
    /\ f_return = None
    /\ f_return' = calculate_snr(f_args.audio)
    /\ UNCHANGED <<f_name, f_args, audioVars, assessVars, docVars, authVars>>

NextSnr == CalculateSnr

SpecSnr == InitSnr /\ [][NextSnr]_vars

SnrReturned == f_name = "calculate_snr" /\ f_return # None

\* C11: calculate_snr returns a value in [-50, 50] for every sample
\* sequence; it returns 0 when the signal is too short to form one frame
\* (fewer than 100 samples) and otherwise 50 when the noise floor is zero.
C11_SnrInRange ==
    SnrReturned =>
        /\ -50 <= f_return.lo /\ f_return.lo <= f_return.hi /\ f_return.hi <= 50
        /\ Len(f_args.audio) < 100 => f_return = ExactDb(0)
        /\ (Len(f_args.audio) >= 100 /\ NoiseEstimate(f_args.audio).hi = 0)
              => f_return = ExactDb(50)

\* C11 witness: a loud signal over a quiet, non-zero noise floor, whose
\* ratio of more than 10**5 the clamp brings down to 50.
C11_Witness ==
    /\ SnrReturned
    /\ Len(f_args.audio) >= 100
    /\ NoiseEstimate(f_args.audio).lo > 0
    /\ AtLeastPow10(SumSquares(f_args.audio, 1, Len(f_args.audio)) * 100,
                    Len(f_args.audio) * NoiseEstimate(f_args.audio).hi, 5)
    /\ f_return.hi = 50

(***************************************************************************)
(* detect_speech_segments (audio_processing.py lines 104-188)              *)
(*                                                                         *)
(* The audio is 16 kHz mono 16-bit after line 123, so one second is 32000  *)
(* bytes of raw_data.  Times and durations are kept in bytes of raw_data   *)
(* (timestamp * 32000), which makes every timestamp of the code a whole    *)
(* number; one millisecond is 32 bytes.                                    *)
(***************************************************************************)
\* lines 131-132, 137: frame_length * 2 bytes per 30 ms frame
FrameBytes == 960

\* the time at which the frame at byte offset i ends
TimestampFrameEnd(i) == i + FrameBytes

\* line 145: timestamp = i / (16000 * 2), for the byte offset i
Timestamp(i) == i

\* the final segment closed where the last frame began
FinalTimestampLastFrame(raw_len) == FrameBytes * ((raw_len \div FrameBytes) - 1)

\* line 159: final_timestamp = len(audio_segment.raw_data) / (16000 * 2)
FinalTimestamp(raw_len) == raw_len

\* lines 150-154, 160-164: one entry of speech_segments
Segment(start, end) == [start |-> start, end |-> end, duration |-> end - start]

\* lines 137-155: the loop over the frames, from frame k on; frames that are
\* shorter than frame_length * 2 end the loop (line 140), so only the
\* raw_len // 960 whole frames are classified.  Returns the segments and
\* current_segment_start, which is None or [at |-> timestamp].
RECURSIVE ScanFrames(_, _, _, _)
ScanFrames(k, is_speech, segments, current_segment_start) ==
    IF k > Len(is_speech)
    THEN [segments |-> segments, current_segment_start |-> current_segment_start]
    ELSE LET timestamp == Timestamp((k - 1) * FrameBytes)
         IN IF is_speech[k] /\ current_segment_start = None
            THEN ScanFrames(k + 1, is_speech, segments, [at |-> timestamp])
            ELSE IF ~is_speech[k] /\ current_segment_start # None
            THEN ScanFrames(k + 1, is_speech,
                            Append(segments, Segment(current_segment_start.at, timestamp)),
                            None)
            ELSE ScanFrames(k + 1, is_speech, segments, current_segment_start)

\* sum(segment['duration'] for segment in speech_segments)
RECURSIVE SumDurations(_)
SumDurations(segments) ==
    IF segments = <<>> THEN 0 ELSE Head(segments).duration + SumDurations(Tail(segments))

\* len(audio_segment): pydub's round(1000 * frame_count / frame_rate), the
\* length in whole milliseconds of raw_len // 2 samples at 16 kHz.  Python
\* rounds a half to the even neighbour; the float product next to a half may
\* fall on either side, so both neighbours are possible there.
LenMilliseconds(raw_len) ==
    LET samples == raw_len \div 2
        q == samples \div 16
        r == samples % 16
    IN IF r < 8 THEN {q} ELSE IF r > 8 THEN {q + 1} ELSE {q, q + 1}

\* lines 157-183: the final segment and the statistics, for a length of
\* len_ms milliseconds
VadResultOf(raw_len, is_speech, len_ms) ==
    LET scan == ScanFrames(1, is_speech, <<>>, None)
        speech_segments ==
            IF scan.current_segment_start # None
            THEN Append(scan.segments,
                        Segment(scan.current_segment_start.at, FinalTimestamp(raw_len)))
            ELSE scan.segments
        total_duration == 32 * len_ms
        speech_duration == SumDurations(speech_segments)
    IN [speech_segments |-> speech_segments,
        statistics |->
            [total_duration |-> total_duration,
             speech_duration |-> speech_duration,
             silence_duration |-> total_duration - speech_duration,
             \* speech_duration / total_duration, as a fraction; 0 over 1
             \* is the literal 0 of line 171
             speech_ratio |-> IF total_duration > 0
                              THEN [num |-> speech_duration, den |-> total_duration]
                              ELSE [num |-> 0, den |-> 1],
             num_segments |-> Len(speech_segments)]]

\* lines 104-188: every result the call can return
detect_speech_segments(raw_len, is_speech) ==
    {VadResultOf(raw_len, is_speech, len_ms) : len_ms \in LenMilliseconds(raw_len)}

\* raw_data lengths in bytes: empty, shorter than a frame, whole frames, and
\* frames followed by a tail that is or is not a whole number of milliseconds
VadLengths ==
    {0, 14, 16, 958, 960, 974, 976, 990, 1920, 1936, 2880, 2894, 2912, 3840, 3850, 4800}

\* the VAD's verdict on each whole frame
VadArgs ==
    UNION {[raw_len : {l}, is_speech : [1..(l \div FrameBytes) -> BOOLEAN]] : l \in VadLengths}

InitVad ==
    /\ AudioIdle
    /\ AuthIdle
    /\ AssessIdle
    /\ DocIdle
    /\ f_name = "detect_speech_segments"
    /\ f_args \in VadArgs
    /\ f_return = None

DetectSpeechSegments ==
    /\ f_name = "detect_speech_segments"
    /\ f_return = None
    /\ f_return' \in detect_speech_segments(f_args.raw_len, f_args.is_speech)
    /\ UNCHANGED <<f_name, f_args, audioVars, assessVars, docVars, authVars>>

NextVad == DetectSpeechSegments

SpecVad == InitVad /\ [][NextVad]_vars

VadReturned == f_name = "detect_speech_segments" /\ f_return # None

\* C12: the returned segments are sorted by start time and do not overlap:
\* start < end in every segment and each segment ends no later than the
\* next one starts.
C12_SegmentsSortedDisjoint ==
    VadReturned =>
        LET segs == f_return.speech_segments
        IN /\ \A i \in 1..Len(segs) : segs[i].start < segs[i].end
           /\ \A i \in 1..(Len(segs) - 1) : segs[i].end <= segs[i + 1].start

\* C12 witness: two segments, the second one closed at the end of a stream
\* that is not a whole number of frames.
C12_Witness ==
    /\ VadReturned
    /\ f_args.raw_len % FrameBytes # 0
    /\ Len(f_return.speech_segments) = 2
    /\ f_return.speech_segments[2].end = f_args.raw_len

\* C13: 0 <= speech_ratio <= 1 and speech_duration + silence_duration =
\* total_duration with silence_duration >= 0.
C13_StatisticsConsistent ==
    VadReturned =>
        LET st == f_return.statistics
        IN /\ 0 <= st.speech_ratio.num
           /\ st.speech_ratio.num <= st.speech_ratio.den
           /\ st.speech_duration + st.silence_duration = st.total_duration
           /\ st.silence_duration >= 0


(***************************************************************************)
(* Single calls of _apply_template and of render_template.  f_return is    *)
(* the sequence of the results of the calls made so far: one call of       *)
(* _apply_template, up to MaxRenders calls of render_template with the     *)
(* same arguments.                                                         *)
(***************************************************************************)
MaxRenders == 2

\* "On {{ format_date(date) }}{{ format_date(missing_var) }}"
HelperTemplate ==
    <<[lit |-> "On"], [func |-> "format_date", var |-> "date"],
      [func |-> "format_date", var |-> "missing_var"]>>

\* "{{ title }} {{ content | markdown }}"
FilterTemplate == <<[var |-> "title"], [filter |-> "markdown", var |-> "content"]>>

\* "{{ title }} {{ current_date }} {{ current_year }}"
ClockTemplate == <<[var |-> "title"], [var |-> "current_date"], [var |-> "current_year"]>>

\* the markup a caller may pass (None: not passed)
EngineTemplates ==
    <<None, <<>>, GreetingTemplate, SyntaxErrorTemplate, HelperTemplate, FilterTemplate,
      ClockTemplate>>

\* the document_type argument of a direct render_template call
EngineDocumentTypes == <<None, "letter">>

\* the variables argument of a direct render_template call
VariableMappings ==
    <<None, <<>>,
      [title |-> <<"Q&A">>],
      [title |-> <<"Minutes">>, content |-> <<"plan">>, date |-> <<"2025-03-04">>],
      [title |-> <<"Minutes">>, current_date |-> <<"someday">>,
       current_year |-> <<"1999">>]>>

\* the additional_context of a request handed to _apply_template
StageContexts ==
    <<None, <<>>, [title |-> <<"Q&A">>],
      [title |-> <<"Q&A">>, current_year |-> <<"1999">>, date |-> <<"2025-03-04">>]>>

\* the structured content handed to _apply_template
StageContents ==
    <<ContentFull, ContentNoVariables, ContentNullVariables, ContentNoSections,
      ContentNullSections,
      [ContentFull EXCEPT !.template_variables =
            [title |-> <<"Minutes">>, content |-> <<"plan">>, date |-> <<"someday">>]]>>

\* the keyword arguments of a direct call: an argument left out keeps its
\* default None
EngineArgs(template_content, template_id, document_type) ==
    (IF IsNone(template_content) THEN <<>> ELSE [template_content |-> template_content])
    @@ (IF template_id = None THEN <<>> ELSE [template_id |-> template_id])
    @@ (IF IsNone(document_type) THEN <<>> ELSE [document_type |-> document_type])

InitTemplate ==
    /\ AudioIdle
    /\ AuthIdle
    /\ AssessIdle
    /\ DocIdle
    /\ f_return = <<>>
    /\ \/ /\ f_name = "_apply_template"
          /\ \E dt \in DocumentTypes, ti \in DOMAIN TemplateIds,
                ct \in DOMAIN EngineTemplates, ac \in DOMAIN StageContexts,
                sc \in DOMAIN StageContents :
               f_args = [request |-> [transcription_text |-> <<>>,
                                      document_type |-> dt,
                                      template_id |-> TemplateIds[ti],
                                      custom_template |-> EngineTemplates[ct],
                                      additional_context |-> StageContexts[ac]],
                         structured_content |-> StageContents[sc]]
       \/ /\ f_name = "render_template"
          /\ \E tc \in DOMAIN EngineTemplates, ti \in DOMAIN TemplateIds,
                dt \in DOMAIN EngineDocumentTypes, vs \in DOMAIN VariableMappings :
               f_args = [args |-> EngineArgs(EngineTemplates[tc], TemplateIds[ti],
                                             EngineDocumentTypes[dt]),
                         variables |-> VariableMappings[vs]]

\* document_processor.py lines 250-289: one call of _apply_template
ApplyTemplateCall ==
    /\ f_name = "_apply_template"
    /\ f_return = <<>>
    /\ \E now \in Clock :
         f_return' = <<apply_template(f_args.request, f_args.structured_content, now)>>
    /\ UNCHANGED <<f_name, f_args, audioVars, assessVars, docVars, authVars>>

\* template_engine.py lines 226-267: one more call of render_template with
\* the same arguments
RenderTemplateCall ==
    /\ f_name = "render_template"
    /\ Len(f_return) < MaxRenders
    /\ \E now \in Clock :
         f_return' = Append(f_return, render_template(f_args.args, f_args.variables, now))
    /\ UNCHANGED <<f_name, f_args, audioVars, assessVars, docVars, authVars>>

NextTemplate ==
    \/ ApplyTemplateCall
    \/ RenderTemplateCall

SpecTemplate == InitTemplate /\ [][NextTemplate]_vars

\* the calls the engine has received: those stage 3 made, or the direct ones
EngineCalls ==
    IF f_name = "_apply_template"
    THEN (IF f_return = <<>> THEN <<>> ELSE f_return[1].engine_calls)
    ELSE [i \in 1..Len(f_return) |->
            [args |-> f_args.args, variables |-> f_args.variables, result |-> f_return[i]]]

\* stage 3 got as far as choosing a template (line 264)
ReachedTemplateChoice ==
    /\ f_name = "_apply_template"
    /\ f_return # <<>>
    /\ ~(f_return[1].raised /\ f_return[1].error = "AttributeError")

\* C14: stage 3 hands the engine exactly one template source per request:
\* the custom markup if the request carries one, else the template id if it
\* carries one, else the document type; and the engine takes its template
\* from template_content, else template_id, else document_type.
C14_TemplatePrecedence ==
    /\ ReachedTemplateChoice =>
         LET req == f_args.request
             calls == f_return[1].engine_calls
         IN /\ Len(calls) = 1
            /\ Cardinality(DOMAIN calls[1].args) = 1
            /\ IF Truthy(req.custom_template)
               THEN calls[1].args = [template_content |-> req.custom_template]
               ELSE IF TruthyId(req.template_id)
               THEN calls[1].args = [template_id |-> req.template_id]
               ELSE calls[1].args = [document_type |-> req.document_type]
    /\ f_name \in {"_apply_template", "render_template"} =>
         \A i \in DOMAIN EngineCalls :
            LET a == EngineCalls[i].args
                source == EngineCalls[i].result.source
            IN IF "template_content" \in DOMAIN a /\ a.template_content # <<>>
               THEN source = "template_content"
               ELSE IF "template_id" \in DOMAIN a /\ a.template_id.id # 0
               THEN source = "template_id"
               ELSE IF "document_type" \in DOMAIN a
               THEN source = "document_type"
               ELSE source = "none"

\* a request with both a custom template and a template id went through
\* stage 3, and a direct call passed both markup and an id
C14_Witness ==
    \/ /\ ReachedTemplateChoice
       /\ Truthy(f_args.request.custom_template)
       /\ TruthyId(f_args.request.template_id)
       /\ f_return[1].engine_calls[1].result.source = "template_content"
    \/ /\ f_name = "render_template"
       /\ Len(f_return) = 1
       /\ DOMAIN f_args.args = {"template_content", "template_id", "document_type"}
       /\ f_args.args.template_id.id # 0
       /\ f_args.args.template_content # <<>>

\* C15: the variables stage 3 passes to the engine are the stage-2
\* template_variables merged with the request's additional_context, the
\* additional_context value standing on every key the two share; and in the
\* variables bound for rendering every caller-supplied variable keeps its
\* value, current_date, current_time and current_year included.
C15_CallerVariablesWin ==
    /\ ReachedTemplateChoice =>
         LET req == f_args.request
             tv == Get(f_args.structured_content, "template_variables", <<>>)
             ac == IF Truthy(req.additional_context) THEN req.additional_context ELSE <<>>
             passed == f_return[1].engine_calls[1].variables
         IN IF tv = None THEN passed = None
            ELSE /\ DOMAIN passed = DOMAIN tv \cup DOMAIN ac
                 /\ \A k \in DOMAIN ac : passed[k] = ac[k]
                 /\ \A k \in DOMAIN tv \ DOMAIN ac : passed[k] = tv[k]
    /\ f_name \in {"_apply_template", "render_template"} =>
         \A i \in DOMAIN EngineCalls :
            LET passed == IF Truthy(EngineCalls[i].variables)
                          THEN EngineCalls[i].variables ELSE <<>>
                bound == EngineCalls[i].result.render_vars
            IN bound # None =>
                 /\ DOMAIN bound = DOMAIN passed
                                   \cup {"current_date", "current_time", "current_year"}
                 /\ \A k \in DOMAIN passed : bound[k] = passed[k]

\* stage 3 rendered a template for a request whose additional_context
\* carries a title and a current_year while stage 2 supplied another title
C15_Witness ==
    /\ ReachedTemplateChoice
    /\ ~f_return[1].raised
    /\ f_return[1].rendered
    /\ "template_variables" \in DOMAIN f_args.structured_content
    /\ f_args.structured_content.template_variables # None
    /\ f_args.structured_content.template_variables.title = <<"Minutes">>
    /\ f_return[1].engine_calls[1].result.render_vars.title = <<"Q&A">>
    /\ f_return[1].engine_calls[1].result.render_vars.current_year = <<"1999">>

(***************************************************************************)
(* generate_document on longer transcripts: the same four stages, started  *)
(* from requests whose transcripts have 12, 199, 399 and 400 words.        *)
(***************************************************************************)
\* "Team meeting about Q3 roadmap. John will send the budget by Friday."
\* (its twelve words, full stops left out)
ScenarioTranscript ==
    <<"Team", "meeting", "about", "Q3", "roadmap", "John", "will", "send", "the",
      "budget", "by", "Friday">>

LongTranscripts ==
    {ScenarioTranscript, Run("word", 199), Run("word", 399), Run("word", 400)}

InitLongDoc ==
    /\ AudioIdle
    /\ AuthIdle
    /\ AssessIdle
    /\ FnIdle
    /\ \E tt \in LongTranscripts, dt \in DocumentTypes, ct \in {1, 3} :
         request = [transcription_text |-> tt,
                    document_type |-> dt,
                    template_id |-> None,
                    custom_template |-> CustomTemplates[ct],
                    additional_context |-> None]
    /\ d_pc = "analyze"
    /\ capability_calls = <<>>
    /\ analysis_result = None
    /\ structured_content = None
    /\ formatted_content = None
    /\ final_result = None
    /\ d_error = None
    /\ stage_log = <<>>

SpecLongDoc == InitLongDoc /\ [][NextDoc]_vars

\* stage 2's capability call has been answered by raising or by a string
\* json.loads rejects
Stage2CallFailed ==
    \E i \in DOMAIN capability_calls :
        /\ capability_calls[i].stage = "generate"
        /\ capability_calls[i].response # None
        /\ \/ capability_calls[i].response = Raises
           \/ JsonLoads(capability_calls[i].response).raised

\* C16: when stage 2's capability call fails, stage 2 returns one section
\* holding the transcript word for word, metadata word_count = the number of
\* words of the transcript and a reading time of max(1, word_count // 200)
\* minutes; the result then has the transcript as document_content and the
\* same word_count (12 for the scenario transcript).
C16_Stage2Fallback ==
    Stage2CallFailed =>
        /\ \A i \in DOMAIN stage_log :
             (stage_log[i].stage = "generate" /\ stage_log[i].event = "end") =>
                LET c == stage_log[i].output
                    n == Len(request.transcription_text)
                IN /\ Len(c.sections) = 1
                   /\ c.sections[1].content = request.transcription_text
                   /\ c.metadata.word_count = n
                   /\ c.metadata.estimated_reading_time.minutes
                        = (IF n \div 200 < 1 THEN 1 ELSE n \div 200)
        /\ d_pc = "returned" =>
             /\ final_result.document_content = request.transcription_text
             /\ final_result.metadata.word_count = Len(request.transcription_text)
             /\ request.transcription_text = ScenarioTranscript =>
                  final_result.metadata.word_count = 12

\* a result came back for a 399-word transcript after stage 2's call failed
C16_Witness ==
    /\ Stage2CallFailed
    /\ d_pc = "returned"
    /\ Len(request.transcription_text) = 399
    /\ final_result.metadata.estimated_reading_time.minutes = 1
    /\ Len(final_result.document_content) = 399

(***************************************************************************)
(* Single calls of _calculate_quality_score and of _generate_suggestions   *)
(* on structured contents with zero to three sections and formatted texts  *)
(* of 0 to 3001 words.                                                     *)
(***************************************************************************)
\* a transcript of ten distinct words
TenWords ==
    <<"team", "meeting", "John", "Mary", "plan", "budget", "roadmap", "send", "the", "by">>

\* the transcript, template_id and custom_template of the request (the
\* latter two by index)
RequestVariants ==
    <<<<(<<>>), 1, 1>>, <<TenWords, 1, 1>>, <<TenWords, 2, 2>>, <<TenWords, 3, 1>>,
      <<TenWords, 1, 3>>>>

\* the lengths of the formatted content, around the thresholds of lines
\* 403-409 and 444-447
WordCounts == {0, 49, 50, 99, 100, 2000, 2001, 3000, 3001}

\* how many of the transcript's words the formatted content opens with
Overlaps == {0, 1, 2, 3, 4}

\* formatted contents: filler of each length, 100-word texts that open with
\* k words of the transcript, and two texts with a salutation
FormattedTexts ==
    {Run("word", n) : n \in WordCounts}
    \cup {Prefix(TenWords, k) \o Run("word", 100 - k) : k \in Overlaps}
    \cup {<<"Dear", "John">> \o Run("word", 47), <<"hello">> \o Run("word", 60)}

\* the sections of the structured content
SectionLists ==
    <<<<>>,
      <<[heading |-> <<"Content">>, content |-> <<"plan">>]>>,
      <<[content |-> <<"plan">>]>>,
      <<[heading |-> <<"Action", "Items">>, content |-> <<"plan">>],
        [heading |-> <<"Notes">>, content |-> <<"team">>]>>,
      <<[heading |-> <<"Intro">>, content |-> <<"plan">>],
        [heading |-> <<"Notes">>, content |-> <<"team">>],
        [heading |-> <<"Summary">>, content |-> <<"budget">>]>>,
      <<[heading |-> <<"Intro">>, content |-> <<"plan">>],
        [heading |-> <<>>, content |-> <<"team">>],
        [heading |-> <<"Summary">>, content |-> <<"budget">>]>>>>

\* the title of the structured content (None: the key is missing)
ScoreTitles == <<None, <<>>, <<"Minutes">>>>

ScoredContent(title, sections) ==
    (IF IsNone(title) THEN <<>> ELSE [title |-> title]) @@ [sections |-> sections]

InitPost ==
    /\ AudioIdle
    /\ AuthIdle
    /\ AssessIdle
    /\ DocIdle
    /\ f_name \in {"_calculate_quality_score", "_generate_suggestions"}
    /\ f_return = None
    /\ \E tl \in DOMAIN ScoreTitles, sl \in DOMAIN SectionLists, ft \in FormattedTexts,
          dt \in DocumentTypes, rv \in DOMAIN RequestVariants :
         f_args = [structured_content |-> ScoredContent(ScoreTitles[tl], SectionLists[sl]),
                   formatted_content |-> ft,
                   request |-> [transcription_text |-> RequestVariants[rv][1],
                                document_type |-> dt,
                                template_id |-> TemplateIds[RequestVariants[rv][2]],
                                custom_template |-> CustomTemplates[RequestVariants[rv][3]],
                                additional_context |-> None]]

\* document_processor.py lines 384-433
CalculateQualityScore ==
    /\ f_name = "_calculate_quality_score"
    /\ f_return = None
    /\ f_return' = calculate_quality_score(f_args.structured_content,
                                           f_args.formatted_content, f_args.request)
    /\ UNCHANGED <<f_name, f_args, audioVars, assessVars, docVars, authVars>>

\* document_processor.py lines 435-465
GenerateSuggestions ==
    /\ f_name = "_generate_suggestions"
    /\ f_return = None
    /\ f_return' = generate_suggestions(f_args.structured_content,
                                        f_args.formatted_content, f_args.request)
    /\ UNCHANGED <<f_name, f_args, audioVars, assessVars, docVars, authVars>>

NextPost ==
    \/ CalculateQualityScore
    \/ GenerateSuggestions

SpecPost == InitPost /\ [][NextPost]_vars

ScoreReturned == f_name = "_calculate_quality_score" /\ f_return # None

\* the five components as the specification words them, in hundredths
ClaimedCompleteness(n) == IF n >= 3 THEN 30 ELSE IF n = 2 THEN 20 ELSE IF n = 1 THEN 10 ELSE 0
ClaimedWordCount(n) ==
    IF n \in 100..2000 THEN 20
    ELSE IF n \in (50..99) \cup (2001..3000) THEN 15
    ELSE 10
ClaimedTitle(content) ==
    IF "title" \in DOMAIN content /\ content.title # <<>> THEN 10 ELSE 0
AllSectionsHaveHeadings(sections) ==
    \A i \in DOMAIN sections :
        "heading" \in DOMAIN sections[i] /\ sections[i].heading # <<>>
ClaimedTemplate(req) ==
    IF (req.template_id # None /\ req.template_id.id # 0) \/ Truthy(req.custom_template)
    THEN 15 ELSE 5
ClaimedRelevance(transcript, formatted) ==
    LET tokens == LowerWords(transcript)
        overlap == Cardinality(tokens \cap LowerWords(formatted))
    IN IF 100 * overlap > 30 * Cardinality(tokens) THEN 10
       ELSE IF 100 * overlap > 10 * Cardinality(tokens) THEN 5
       ELSE 0
ClaimedWithoutHeadings ==
      ClaimedCompleteness(Len(f_args.structured_content.sections))
    + ClaimedWordCount(Len(f_args.formatted_content))
    + ClaimedTitle(f_args.structured_content)
    + ClaimedTemplate(f_args.request)
    + ClaimedRelevance(f_args.request.transcription_text, f_args.formatted_content)
ComponentMaxima == 30 + 20 + (10 + 15) + 15 + 10

SuggestionsReturned == f_name = "_generate_suggestions" /\ f_return # None

\* the formatted content contains 'dear' or 'hello', whatever the case
HasSalutation(formatted) ==
    \E i \in DOMAIN formatted : Lower(formatted[i]) \in {"dear", "hello"}

\* some section heading contains 'action', whatever the case
HasActionHeading(sections) ==
    \E i \in DOMAIN sections :
        /\ "heading" \in DOMAIN sections[i]
        /\ \E j \in DOMAIN sections[i].heading :
              Lower(sections[i].heading[j]) \in {"action", "actions"}

\* C18: for a request of any document type _generate_suggestions returns a
\* list that holds the add-detail suggestion iff the formatted content has
\* fewer than 50 words, the condense suggestion iff it has more than 2000,
\* the add-sections suggestion iff there are fewer than 2 sections, the
\* action-items suggestion iff the type is meeting_minutes and no heading
\* contains 'action', and the salutation suggestion iff the type is letter
\* and the content has neither 'dear' nor 'hello'.
C18_SuggestionRules ==
    SuggestionsReturned =>
        /\ ~f_return.raised
        /\ LET words == Len(f_args.formatted_content)
               sections == f_args.structured_content.sections
               type == f_args.request.document_type
               suggested(s) == InList(s, f_return.value)
           IN /\ suggested("Consider adding more detail to make the document more comprehensive")
                    <=> words < 50
              /\ suggested("Consider condensing the content for better readability")
                    <=> words > 2000
              /\ suggested("Add more sections to improve document structure")
                    <=> Len(sections) < 2
              /\ suggested("Consider adding an action items section")
                    <=> (type = "meeting_minutes" /\ ~HasActionHeading(sections))
              /\ suggested("Consider adding a proper salutation")
                    <=> (type = "letter" /\ ~HasSalutation(f_args.formatted_content))

\* the variables a template's markup refers to
ReferencedVars(parts) ==
    {parts[i].var : i \in {j \in DOMAIN parts : "var" \in DOMAIN parts[j]}}

\* the direct calls of render_template that parsed the caller's markup
ParsedRenders ==
    IF f_name = "render_template" /\ TemplateSource(f_args.args) = "template_content"
          /\ f_args.args.template_content # SyntaxErrorTemplate
    THEN DOMAIN f_return
    ELSE {}

\* C19: rendering a template that refers to a variable absent from the
\* supplied mapping succeeds, and the output is what the template gives
\* with an empty value for that variable, whether the variable is printed
\* bare, passed to a helper function or piped through a filter.
C19_MissingVariableRendersEmpty ==
    \A i \in ParsedRenders :
        LET parts == f_args.args.template_content
            bound == f_return[i].render_vars
            missing == ReferencedVars(parts) \ DOMAIN bound
        IN missing # {} =>
             /\ ~f_return[i].raised
             /\ f_return[i].value
                  = RenderParts(parts, bound @@ [v \in missing |-> <<>>]).value

\* the clock-derived names a template refers to and the caller left unbound
ClockReferences ==
    IF ParsedRenders = {} THEN {}
    ELSE (ReferencedVars(f_args.args.template_content)
            \cap {"current_date", "current_time", "current_year"})
         \ (IF Truthy(f_args.variables) THEN DOMAIN f_args.variables ELSE {})

C21_OnlyStructuralErrorsFatal ==
    /\ d_pc = "returned" => request.transcription_text # <<>>
    /\ d_pc = "raised" => request.transcription_text = <<>>
    /\ a_pc = "returned" => enhancement_level \in EnhancementLevels
    /\ a_pc = "raised" => enhancement_level \notin EnhancementLevels

\* the value stage `stage` returned, as the stage log has it
StageOutputs(stage) ==
    {stage_log[j].output :
        j \in {k \in DOMAIN stage_log :
                  stage_log[k].stage = stage /\ stage_log[k].event = "end"}}

\* C22: when the capability answers with a JSON object inside prose or a
\* code fence, stages 1 and 2 return that object; a stage returns its
\* fallback only when the answer holds no JSON object (the call raised, or
\* the answer is prose or malformed JSON).
C22_EmbeddedJsonExtracted ==
    \A i \in DOMAIN capability_calls :
        LET c == capability_calls[i]
        IN c.response # None =>
             \A out \in StageOutputs(c.stage) :
                /\ c.response.kind = "json_in_prose" => out = c.response.value
                /\ (IF c.stage = "analyze"
                    THEN out \in FallbackAnalysis(request.transcription_text,
                                                  request.document_type)
                    ELSE out = FallbackContent(request))
                     => c.response.kind \in {"raise", "prose", "malformed_json"}

(***************************************************************************)
(* JapaneseTemplateLibrary (japanese_templates.py): up to MaxLibraryCalls  *)
(* calls of its three accessors on one library.  f_args is the sequence of *)
(* the calls made and f_return the sequence of their outcomes.             *)
(***************************************************************************)
MaxLibraryCalls == 2

\* lines 10-15: the values of TemplateStyle
TemplateStyles ==
    {"japanese_professional", "japanese_modern", "japanese_formal",
     "japanese_creative", "japanese_minimal"}

\* lines 392-522: _initialize_templates, the id, document type and style of
\* each template in list order
LibraryTemplate(id, document_type, style) ==
    [id |-> id, document_type |-> document_type, style |-> style]

Library ==
    <<LibraryTemplate("meeting_professional_ja", "meeting_minutes", "japanese_professional"),
      LibraryTemplate("meeting_modern_ja", "meeting_minutes", "japanese_modern"),
      LibraryTemplate("meeting_minimal_ja", "meeting_minutes", "japanese_minimal"),
      LibraryTemplate("letter_formal_ja", "letter", "japanese_formal"),
      LibraryTemplate("letter_modern_ja", "letter", "japanese_modern"),
      LibraryTemplate("report_professional_ja", "report", "japanese_professional"),
      LibraryTemplate("report_creative_ja", "report", "japanese_creative"),
      LibraryTemplate("flyer_event_ja", "flyer", "japanese_modern"),
      LibraryTemplate("flyer_business_ja", "flyer", "japanese_professional")>>

\* lines 524-526
get_templates_by_type(document_type) ==
    SelectSeq(Library, LAMBDA t : t.document_type = document_type)

\* a lookup that answers with the first template when the id is unknown
get_template_by_id_or_first(template_id) ==
    LET hits == SelectSeq(Library, LAMBDA t : t.id = template_id)
    IN IF hits # <<>> THEN [raised |-> FALSE, value |-> hits[1]]
       ELSE [raised |-> FALSE, value |-> Library[1]]

\* lines 528-533: the first template with that id, else ValueError
get_template_by_id(template_id) ==
    LET hits == SelectSeq(Library, LAMBDA t : t.id = template_id)
    IN IF hits # <<>> THEN [raised |-> FALSE, value |-> hits[1]]
       ELSE [raised |-> TRUE, error |-> "ValueError"]

\* lines 535-537
get_templates_by_style(style) == SelectSeq(Library, LAMBDA t : t.style = style)

\* the ids a caller asks for: those of the library and two it does not have
LookupIds == {Library[i].id : i \in DOMAIN Library} \cup {"non_existent_template", ""}

InitLibrary ==
    /\ AudioIdle
    /\ AuthIdle
    /\ AssessIdle
    /\ DocIdle
    /\ f_name = "JapaneseTemplateLibrary"
    /\ f_args = <<>>
    /\ f_return = <<>>

LibraryCall(method, arg, outcome) ==
    /\ f_name = "JapaneseTemplateLibrary"
    /\ Len(f_args) < MaxLibraryCalls
    /\ f_args' = Append(f_args, [method |-> method, arg |-> arg])
    /\ f_return' = Append(f_return, outcome)
    /\ UNCHANGED <<f_name, audioVars, assessVars, docVars, authVars>>

GetTemplatesByType ==
    \E dt \in DocumentTypes :
        LibraryCall("get_templates_by_type", dt,
                    [raised |-> FALSE, value |-> get_templates_by_type(dt)])

GetTemplateById ==
    \E id \in LookupIds : LibraryCall("get_template_by_id", id, get_template_by_id(id))

GetTemplatesByStyle ==
    \E st \in TemplateStyles :
        LibraryCall("get_templates_by_style", st,
                    [raised |-> FALSE, value |-> get_templates_by_style(st)])

NextLibrary ==
    \/ GetTemplatesByType
    \/ GetTemplateById
    \/ GetTemplatesByStyle

SpecLibrary == InitLibrary /\ [][NextLibrary]_vars

\* the library templates that satisfy a test, and a list that holds each of
\* them once and nothing else
LibraryIndices(test(_)) == {i \in DOMAIN Library : test(Library[i])}
ListsExactly(list, test(_)) ==
    /\ Len(list) = Cardinality(LibraryIndices(test))
    /\ \A i \in LibraryIndices(test) : \E j \in DOMAIN list : list[j] = Library[i]

\* C23: get_template_by_id returns the library template with the id asked
\* for and raises ValueError when there is none; get_templates_by_type and
\* get_templates_by_style return exactly the library templates of that type
\* or style, at least 3 for meeting minutes, 2 for letters, 3 professional
\* and 3 modern.
C23_LibraryLookups ==
    f_name = "JapaneseTemplateLibrary" =>
      \A k \in DOMAIN f_args :
        LET arg == f_args[k].arg
            out == f_return[k]
        IN CASE f_args[k].method = "get_template_by_id" ->
                  IF \E i \in DOMAIN Library : Library[i].id = arg
                  THEN /\ ~out.raised
                       /\ out.value.id = arg
                       /\ \E i \in DOMAIN Library : Library[i] = out.value
                  ELSE out.raised /\ out.error = "ValueError"
             [] f_args[k].method = "get_templates_by_type" ->
                  /\ ~out.raised
                  /\ ListsExactly(out.value, LAMBDA t : t.document_type = arg)
                  /\ arg = "meeting_minutes" => Len(out.value) >= 3
                  /\ arg = "letter" => Len(out.value) >= 2
             [] f_args[k].method = "get_templates_by_style" ->
                  /\ ~out.raised
                  /\ ListsExactly(out.value, LAMBDA t : t.style = arg)
                  /\ arg = "japanese_professional" => Len(out.value) >= 3
                  /\ arg = "japanese_modern" => Len(out.value) >= 3

\* an unknown id was looked up, then the meeting-minutes templates listed
C23_Witness ==
    /\ f_name = "JapaneseTemplateLibrary"
    /\ Len(f_args) = 2
    /\ f_args[1] = [method |-> "get_template_by_id", arg |-> "non_existent_template"]
    /\ f_return[1].raised
    /\ f_args[2] = [method |-> "get_templates_by_type", arg |-> "meeting_minutes"]
    /\ Len(f_return[2].value) = 3

\* C24: one call of process_audio_with_enhancement invokes the
\* speech-transcription capability at most once; a transcription call that
\* failed is not made again.
C24_TranscribedAtMostOnce == Len(transcribe_calls) <= 1

\* stage 3 called the engine and the call raised
RenderRaised ==
    /\ f_name = "_apply_template"
    /\ f_return # <<>>
    /\ f_return[1].engine_calls # <<>>
    /\ f_return[1].engine_calls[1].result.raised

\* the text the specification gives for the minimal formatter: '# title',
\* then per section '## heading' when the heading is not empty and the body
RECURSIVE MinimalSections(_)
MinimalSections(sections) ==
    IF sections = <<>> THEN <<>>
    ELSE LET s == Head(sections)
         IN (IF "heading" \in DOMAIN s /\ s.heading # <<>>
             THEN <<"##">> \o s.heading ELSE <<>>)
            \o s.content \o MinimalSections(Tail(sections))

MinimalDocument(content) ==
    <<"#">> \o content.title
    \o MinimalSections(IF "sections" \in DOMAIN content THEN content.sections ELSE <<>>)

\* C25: when rendering raises in stage 3 (template not found, syntax error
\* or an error while rendering), stage 3 returns the minimal formatter's
\* text -- '# title', then for each section in order '## heading' if the
\* heading is not empty and the body -- and does not raise, so that
\* post-processing runs next.
C25_RenderFailureFormatsBasic ==
    RenderRaised =>
        /\ ~f_return[1].raised
        /\ f_return[1].value = MinimalDocument(f_args.structured_content)

\* stage 3 of the finished call took formatted_content from a rendered
\* template (and not from _format_basic_document): the engine call it made
\* with the request's template and the variables of the structured content
\* did not raise
RenderedByTemplate ==
    \E now \in Clock :
        ~render_template(TemplateArgs(request),
                         Get(structured_content, "template_variables", <<>>), now).raised

\* C26: in a result, metadata.template_used is true exactly when
\* formatted_content came from rendering a template, and the template-usage
\* component of the quality score is 0.15 exactly when template_used is
\* true, whatever template_id, custom_template and render outcome.
C26_TemplateUsedFlag ==
    d_pc = "returned" =>
        /\ final_result.metadata.template_used <=> RenderedByTemplate
        /\ TemplateScore(request) = 15 <=> final_result.metadata.template_used

\* stage 1 of the call has returned the local extraction: its capability
\* call raised or its answer did not parse
Stage1FellBack ==
    \E i \in DOMAIN capability_calls :
        LET c == capability_calls[i]
        IN /\ c.stage = "analyze"
           /\ c.response # None
           /\ (c.response = Raises \/ JsonLoads(c.response).raised)

\* C27: the stage-1 fallback analysis is a function of (transcript,
\* document_type): every run on the same input gives the topics, the
\* participants (the same at most 10 names in the same order), the dates
\* and the single key point of this run, and the key point is the first
\* 200 characters of the transcript.
C27_FallbackAnalysisDeterministic ==
    Stage1FellBack =>
        /\ \A other \in FallbackAnalysis(request.transcription_text, request.document_type) :
              /\ other.main_topics = analysis_result.main_topics
              /\ other.participants = analysis_result.participants
              /\ other.dates_times = analysis_result.dates_times
              /\ other.key_points = analysis_result.key_points
        /\ analysis_result.key_points = <<Prefix(request.transcription_text, 200)>>

\* the maximal runs of consecutive speech frames: [first, last] frame numbers
SpeechRuns(is_speech) ==
    {r \in [first : DOMAIN is_speech, last : DOMAIN is_speech] :
        /\ r.first <= r.last
        /\ \A k \in r.first..r.last : is_speech[k]
        /\ (r.first > 1 => ~is_speech[r.first - 1])
        /\ (r.last < Len(is_speech) => ~is_speech[r.last + 1])}

\* the segment the run r should give: from the first frame's timestamp to
\* the timestamp of the frame after the run, or to the end of the stream
RunSegment(r, is_speech, raw_len) ==
    [start |-> (r.first - 1) * FrameBytes,
     end |-> IF r.last = Len(is_speech) THEN raw_len ELSE r.last * FrameBytes]

\* C28: detect_speech_segments returns exactly one segment per maximal run
\* of consecutive speech frames, from the timestamp of the run's first
\* frame to the timestamp of the first non-speech frame after it, or to the
\* final stream timestamp when the run reaches the end of the stream; audio
\* shorter than one 30 ms frame gives no segment and speech_ratio 0.
C28_OneSegmentPerSpeechRun ==
    VadReturned =>
        LET segs == f_return.speech_segments
            runs == SpeechRuns(f_args.is_speech)
        IN /\ Len(segs) = Cardinality(runs)
           /\ {[start |-> segs[i].start, end |-> segs[i].end] : i \in DOMAIN segs}
                = {RunSegment(r, f_args.is_speech, f_args.raw_len) : r \in runs}
           /\ f_args.raw_len < FrameBytes =>
                /\ segs = <<>>
                /\ f_return.statistics.speech_ratio.num = 0

\* C28 witness: four frames and a tail; the run of frames 1-2 is closed at
\* the timestamp of frame 3, the run of frame 4 at the end of the stream.
C28_Witness ==
    /\ VadReturned
    /\ f_args.raw_len = 3850
    /\ f_args.is_speech = <<TRUE, TRUE, FALSE, TRUE>>
    /\ Len(f_return.speech_segments) = 2
    /\ f_return.speech_segments[1].end = 2 * FrameBytes
    /\ f_return.speech_segments[2].end = f_args.raw_len

(***************************************************************************)
(* RateLimiter.check_rate_limit (security/auth.py lines 321-371), called   *)
(* by several clients with the same key, identifier and limit.  Every      *)
(* Redis command is one atomic step; the commands of different calls       *)
(* interleave.  redis_client is the state of the one cache key; auth_time  *)
(* counts the windows that have ended (the key's expiry ends a window).    *)
(***************************************************************************)
RateClients == {1, 2, 3}

\* calls of check_rate_limit made in one behaviour
MaxRateCalls == 4

\* windows that can end in one behaviour
MaxWindows == 2

\* the limit argument of the calls
RateLimits == {1, 2}

\* the cache key does not exist
NoKey == [exists |-> FALSE, value |-> 0, expires |-> FALSE]

RateIdleCall(limit) == [pc |-> "idle", limit |-> limit, current |-> NoKey]

InitRate ==
    /\ AudioIdle
    /\ AssessIdle
    /\ DocIdle
    /\ FnIdle
    /\ redis_client = NoKey
    /\ \E limit \in RateLimits : auth_calls = [c \in RateClients |-> RateIdleCall(limit)]
    /\ auth_replies = <<>>
    /\ auth_time = 0
    /\ invalidated = {}

RateCallsStarted ==
    Len(auth_replies) + Cardinality({c \in RateClients : auth_calls[c].pc # "idle"})

\* redis_client.ttl(cache_key): -2 for a missing key, -1 for a key without
\* expiry, else the seconds that remain of the window
Ttl(key) ==
    IF ~key.exists THEN "-2" ELSE IF ~key.expires THEN "-1" ELSE "remaining"

\* the dict returned at lines 335-340, 345-350, 356-361 or 366-371
RateReply(c, allowed, count, reset_after) ==
    [client |-> c, allowed |-> allowed, count |-> count, limit |-> auth_calls[c].limit,
     reset_after |-> reset_after, window |-> auth_time]

RateReturn(c, reply) ==
    /\ auth_replies' = Append(auth_replies, reply)
    /\ auth_calls' = [auth_calls EXCEPT ![c].pc = "idle", ![c].current = NoKey]

\* a client calls check_rate_limit
CheckRateLimit(c) ==
    /\ auth_calls[c].pc = "idle"
    /\ RateCallsStarted < MaxRateCalls
    /\ auth_calls' = [auth_calls EXCEPT ![c].pc = "get"]
    /\ UNCHANGED <<redis_client, auth_replies, auth_time, invalidated,
                   audioVars, assessVars, docVars, fnVars>>

\* lines 331-332, 342-343: current = redis_client.get(cache_key) and the
\* branch taken on it
RateGet(c) ==
    /\ auth_calls[c].pc = "get"
    /\ auth_calls' =
         [auth_calls EXCEPT ![c].current = redis_client,
                            ![c].pc = IF ~redis_client.exists THEN "setex"
                                      ELSE IF redis_client.value >= auth_calls[c].limit
                                      THEN "ttl_denied"
                                      ELSE "incr"]
    /\ UNCHANGED <<redis_client, auth_replies, auth_time, invalidated,
                   audioVars, assessVars, docVars, fnVars>>

\* lines 333-340: first request in the window
RateSetex(c) ==
    /\ auth_calls[c].pc = "setex"
    /\ redis_client' = [exists |-> TRUE, value |-> 1, expires |-> TRUE]
    /\ RateReturn(c, RateReply(c, TRUE, 1, "window"))
    /\ UNCHANGED <<auth_time, invalidated,
                   audioVars, assessVars, docVars, fnVars>>

\* lines 343-350: the limit is reached
RateTtlDenied(c) ==
    /\ auth_calls[c].pc = "ttl_denied"
    /\ RateReturn(c, RateReply(c, FALSE, auth_calls[c].current.value, Ttl(redis_client)))
    /\ UNCHANGED <<redis_client, auth_time, invalidated,
                   audioVars, assessVars, docVars, fnVars>>

\* line 353: redis_client.incr(cache_key); INCR on a missing key creates it
\* with the value 1 and no expiry
RateIncr(c) ==
    /\ auth_calls[c].pc = "incr"
    /\ redis_client' =
         IF redis_client.exists
         THEN [redis_client EXCEPT !.value = @ + 1]
         ELSE [exists |-> TRUE, value |-> 1, expires |-> FALSE]
    /\ auth_calls' = [auth_calls EXCEPT ![c].pc = "ttl_allowed"]
    /\ UNCHANGED <<auth_replies, auth_time, invalidated,
                   audioVars, assessVars, docVars, fnVars>>

\* lines 354-361
RateTtlAllowed(c) ==
    /\ auth_calls[c].pc = "ttl_allowed"
    /\ RateReturn(c, RateReply(c, TRUE, auth_calls[c].current.value + 1, Ttl(redis_client)))
    /\ UNCHANGED <<redis_client, auth_time, invalidated,
                   audioVars, assessVars, docVars, fnVars>>

\* lines 363-371: a Redis command of the call raises and the request is
\* allowed
RateRedisError(c) ==
    /\ auth_calls[c].pc \in {"get", "setex", "ttl_denied", "incr", "ttl_allowed"}
    /\ RateReturn(c, RateReply(c, TRUE, 0, "window"))
    /\ UNCHANGED <<redis_client, auth_time, invalidated,
                   audioVars, assessVars, docVars, fnVars>>

\* the window ends: Redis drops the key set by setex(cache_key, window, 1)
RateKeyExpires ==
    /\ redis_client.exists
    /\ redis_client.expires
    /\ auth_time < MaxWindows
    /\ redis_client' = NoKey
    /\ auth_time' = auth_time + 1
    /\ UNCHANGED <<auth_calls, auth_replies, invalidated,
                   audioVars, assessVars, docVars, fnVars>>

NextRate ==
    \/ \E c \in RateClients :
          \/ CheckRateLimit(c)
          \/ RateGet(c)
          \/ RateSetex(c)
          \/ RateTtlDenied(c)
          \/ RateIncr(c)
          \/ RateTtlAllowed(c)
          \/ RateRedisError(c)
    \/ RateKeyExpires

SpecRate == InitRate /\ [][NextRate]_vars

\* the calls answered allowed=True in window w by the limiter itself (the
\* answers of lines 363-371, given when Redis fails, have count 0)
AllowedInWindow(w) ==
    {i \in DOMAIN auth_replies :
        /\ auth_replies[i].allowed
        /\ auth_replies[i].count > 0
        /\ auth_replies[i].window = w}

\* C29: whatever the interleaving of concurrent check_rate_limit calls on
\* one key and identifier, and whenever the key expires, at most `limit`
\* calls are answered allowed=True within one window.
C29_AtMostLimitAllowed ==
    \A w \in 0..MaxWindows :
        \A c \in RateClients : Cardinality(AllowedInWindow(w)) <= auth_calls[c].limit

(***************************************************************************)
(* SessionManager (security/auth.py lines 59-118), called by several       *)
(* clients for one user.  Every Redis command is one atomic step; the      *)
(* commands of different calls interleave.  A hash is modelled by the set  *)
(* of its field names (a key with no field does not exist); auth_time is   *)
(* int(time.time()), which names the session created in that second.       *)
(***************************************************************************)
SessionClients == {1, 2}

\* calls of SessionManager methods made in one behaviour
MaxSessionCalls == 4

\* seconds that pass in one behaviour
MaxSeconds == 2

SessionIds == 1..MaxSeconds

\* lines 66-70: the fields create_session stores
SessionFields == {"created_at", "last_activity", "user_id"}

NoSessionCall ==
    [op |-> "none", pc |-> "idle", sid |-> 0, session_data |-> {}, session_ids |-> {},
     read_ids |-> {}, sessions |-> {}, after |-> {}]

InitSession ==
    /\ AudioIdle
    /\ AssessIdle
    /\ DocIdle
    /\ FnIdle
    /\ redis_client = [hash |-> [s \in SessionIds |-> {}],
                       hash_expires |-> [s \in SessionIds |-> FALSE],
                       user_sessions |-> {},
                       user_sessions_expires |-> FALSE]
    /\ auth_calls = [c \in SessionClients |-> NoSessionCall]
    /\ auth_replies = <<>>
    /\ auth_time = 1
    /\ invalidated = {}

SessionCallsStarted ==
    Len(auth_replies) + Cardinality({c \in SessionClients : auth_calls[c].pc # "idle"})

\* a client enters a method; `after` remembers the sessions invalidated
\* before the call began
SessionCall(c, op, sid, pc) ==
    /\ auth_calls[c].pc = "idle"
    /\ SessionCallsStarted < MaxSessionCalls
    /\ auth_calls' = [auth_calls EXCEPT ![c] =
                         [NoSessionCall EXCEPT !.op = op, !.sid = sid, !.pc = pc,
                                               !.after = invalidated]]
    /\ UNCHANGED <<redis_client, auth_replies, auth_time, invalidated,
                   audioVars, assessVars, docVars, fnVars>>

\* the method returns
SessionReturn(c, returned_none) ==
    /\ auth_replies' =
         Append(auth_replies,
                [client |-> c, op |-> auth_calls[c].op, sid |-> auth_calls[c].sid,
                 returned_none |-> returned_none,
                 session_data |-> auth_calls[c].session_data,
                 sessions |-> auth_calls[c].sessions,
                 after |-> auth_calls[c].after])
    /\ auth_calls' = [auth_calls EXCEPT ![c] = NoSessionCall]

\* line 65: session_id = f"session:{user_id}:{int(time.time())}"
CreateSession(c) == SessionCall(c, "create_session", auth_time, "hmset")

\* line 73: redis_client.hmset(session_id, session_data).  The session with
\* this id is a new one from here on: it leaves the invalidated sessions,
\* and the sessions an invalidate_all_user_sessions under way has deleted.
CreateHmset(c) ==
    /\ auth_calls[c].pc = "hmset"
    /\ redis_client' =
         [redis_client EXCEPT !.hash[auth_calls[c].sid] = @ \cup SessionFields]
    /\ invalidated' = invalidated \ {auth_calls[c].sid}
    /\ auth_calls' =
         [d \in SessionClients |->
            IF d = c
            THEN [auth_calls[c] EXCEPT !.pc = "expire"]
            ELSE [auth_calls[d] EXCEPT
                    !.after = @ \ {auth_calls[c].sid},
                    !.read_ids = @ \ ({auth_calls[c].sid} \ auth_calls[d].session_ids)]]
    /\ UNCHANGED <<auth_replies, auth_time, audioVars, assessVars, docVars, fnVars>>

\* line 74: redis_client.expire(session_id, 7 * 24 * 3600)
CreateExpire(c) ==
    /\ auth_calls[c].pc = "expire"
    /\ redis_client' =
         [redis_client EXCEPT !.hash_expires[auth_calls[c].sid] =
                                  redis_client.hash[auth_calls[c].sid] # {}]
    /\ auth_calls' = [auth_calls EXCEPT ![c].pc = "sadd"]
    /\ UNCHANGED <<auth_replies, auth_time, invalidated,
                   audioVars, assessVars, docVars, fnVars>>

\* line 77: redis_client.sadd(f"user_sessions:{user_id}", session_id)
CreateSadd(c) ==
    /\ auth_calls[c].pc = "sadd"
    /\ redis_client' = [redis_client EXCEPT !.user_sessions = @ \cup {auth_calls[c].sid}]
    /\ auth_calls' = [auth_calls EXCEPT ![c].pc = "expire_set"]
    /\ UNCHANGED <<auth_replies, auth_time, invalidated,
                   audioVars, assessVars, docVars, fnVars>>

\* lines 78-80: the set's expiry, and the return of the session id
CreateExpireSet(c) ==
    /\ auth_calls[c].pc = "expire_set"
    /\ redis_client' =
         [redis_client EXCEPT !.user_sessions_expires = redis_client.user_sessions # {}]
    /\ SessionReturn(c, FALSE)
    /\ UNCHANGED <<auth_time, invalidated, audioVars, assessVars, docVars, fnVars>>

GetSession(c, sid) == SessionCall(c, "get_session", sid, "hgetall")

\* lines 85-86, 90: session_data = redis_client.hgetall(session_id); an
\* empty dict returns None
GetHgetall(c) ==
    /\ auth_calls[c].op = "get_session"
    /\ auth_calls[c].pc = "hgetall"
    /\ LET session_data == redis_client.hash[auth_calls[c].sid]
       IN IF session_data = {}
          THEN /\ SessionReturn(c, TRUE)
          ELSE /\ auth_calls' = [auth_calls EXCEPT ![c].session_data = session_data,
                                                   ![c].pc = "hset"]
               /\ UNCHANGED auth_replies
    /\ UNCHANGED <<redis_client, auth_time, invalidated,
                   audioVars, assessVars, docVars, fnVars>>

\* lines 88-89: redis_client.hset(session_id, "last_activity", ...) and the
\* return of the data read; HSET creates the key when it does not exist
GetHset(c) ==
    /\ auth_calls[c].pc = "hset"
    /\ redis_client' =
         [redis_client EXCEPT
            !.hash[auth_calls[c].sid] = @ \cup {"last_activity"},
            !.hash_expires[auth_calls[c].sid] =
                @ /\ redis_client.hash[auth_calls[c].sid] # {}]
    /\ SessionReturn(c, FALSE)
    /\ UNCHANGED <<auth_time, invalidated, audioVars, assessVars, docVars, fnVars>>

InvalidateSession(c, sid) == SessionCall(c, "invalidate_session", sid, "hgetall")

\* lines 95-96: session_data = redis_client.hgetall(session_id)
InvalidateHgetall(c) ==
    /\ auth_calls[c].op = "invalidate_session"
    /\ auth_calls[c].pc = "hgetall"
    /\ LET session_data == redis_client.hash[auth_calls[c].sid]
       IN auth_calls' =
            [auth_calls EXCEPT ![c].session_data = session_data,
                               ![c].pc = IF "user_id" \in session_data
                                         THEN "srem" ELSE "delete"]
    /\ UNCHANGED <<redis_client, auth_replies, auth_time, invalidated,
                   audioVars, assessVars, docVars, fnVars>>

\* lines 97-98: redis_client.srem(f"user_sessions:{user_id}", session_id)
InvalidateSrem(c) ==
    /\ auth_calls[c].pc = "srem"
    /\ redis_client' =
         [redis_client EXCEPT
            !.user_sessions = @ \ {auth_calls[c].sid},
            !.user_sessions_expires = @ /\ redis_client.user_sessions # {auth_calls[c].sid}]
    /\ auth_calls' = [auth_calls EXCEPT ![c].pc = "delete"]
    /\ UNCHANGED <<auth_replies, auth_time, invalidated,
                   audioVars, assessVars, docVars, fnVars>>

\* line 99: redis_client.delete(session_id); the method has completed
InvalidateDelete(c) ==
    /\ auth_calls[c].op = "invalidate_session"
    /\ auth_calls[c].pc = "delete"
    /\ redis_client' = [redis_client EXCEPT !.hash[auth_calls[c].sid] = {},
                                            !.hash_expires[auth_calls[c].sid] = FALSE]
    /\ invalidated' = invalidated \cup {auth_calls[c].sid}
    /\ SessionReturn(c, TRUE)
    /\ UNCHANGED <<auth_time, audioVars, assessVars, docVars, fnVars>>

InvalidateAllUserSessions(c) ==
    SessionCall(c, "invalidate_all_user_sessions", 0, "smembers")

\* lines 104, 112: session_ids = redis_client.smembers(...)
Smembers(c) ==
    /\ auth_calls[c].pc = "smembers"
    /\ auth_calls' = [auth_calls EXCEPT ![c].session_ids = redis_client.user_sessions,
                                        ![c].read_ids = redis_client.user_sessions,
                                        ![c].pc = "loop"]
    /\ UNCHANGED <<redis_client, auth_replies, auth_time, invalidated,
                   audioVars, assessVars, docVars, fnVars>>

\* lines 105-106: one turn of the loop, redis_client.delete(session_id)
InvalidateAllDelete(c) ==
    /\ auth_calls[c].op = "invalidate_all_user_sessions"
    /\ auth_calls[c].pc = "loop"
    /\ \E session_id \in auth_calls[c].session_ids :
         /\ redis_client' = [redis_client EXCEPT !.hash[session_id] = {},
                                                 !.hash_expires[session_id] = FALSE]
         /\ auth_calls' = [auth_calls EXCEPT ![c].session_ids = @ \ {session_id}]
    /\ UNCHANGED <<auth_replies, auth_time, invalidated,
                   audioVars, assessVars, docVars, fnVars>>

\* line 107: redis_client.delete(f"user_sessions:{user_id}"); the method
\* has completed for the sessions it read at line 104
InvalidateAllDeleteSet(c) ==
    /\ auth_calls[c].op = "invalidate_all_user_sessions"
    /\ auth_calls[c].pc = "loop"
    /\ auth_calls[c].session_ids = {}
    /\ redis_client' = [redis_client EXCEPT !.user_sessions = {},
                                            !.user_sessions_expires = FALSE]
    /\ invalidated' = invalidated \cup auth_calls[c].read_ids
    /\ SessionReturn(c, TRUE)
    /\ UNCHANGED <<auth_time, audioVars, assessVars, docVars, fnVars>>

GetActiveSessions(c) == SessionCall(c, "get_active_sessions", 0, "smembers")

\* lines 114-117: one turn of the loop: the session is listed when its hash
\* is not empty
ActiveHgetall(c) ==
    /\ auth_calls[c].op = "get_active_sessions"
    /\ auth_calls[c].pc = "loop"
    /\ \E session_id \in auth_calls[c].session_ids :
         auth_calls' =
            [auth_calls EXCEPT
               ![c].session_ids = @ \ {session_id},
               ![c].sessions = IF redis_client.hash[session_id] # {}
                               THEN @ \cup {session_id} ELSE @]
    /\ UNCHANGED <<redis_client, auth_replies, auth_time, invalidated,
                   audioVars, assessVars, docVars, fnVars>>

\* line 118: return sessions
ActiveReturn(c) ==
    /\ auth_calls[c].op = "get_active_sessions"
    /\ auth_calls[c].pc = "loop"
    /\ auth_calls[c].session_ids = {}
    /\ SessionReturn(c, FALSE)
    /\ UNCHANGED <<redis_client, auth_time, invalidated,
                   audioVars, assessVars, docVars, fnVars>>

\* a second passes
SecondPasses ==
    /\ auth_time < MaxSeconds
    /\ auth_time' = auth_time + 1
    /\ UNCHANGED <<redis_client, auth_calls, auth_replies, invalidated,
                   audioVars, assessVars, docVars, fnVars>>

NextSession ==
    \/ \E c \in SessionClients :
          \/ CreateSession(c)
          \/ CreateHmset(c)
          \/ CreateExpire(c)
          \/ CreateSadd(c)
          \/ CreateExpireSet(c)
          \/ \E sid \in SessionIds : GetSession(c, sid)
          \/ GetHgetall(c)
          \/ GetHset(c)
          \/ \E sid \in SessionIds : InvalidateSession(c, sid)
          \/ InvalidateHgetall(c)
          \/ InvalidateSrem(c)
          \/ InvalidateDelete(c)
          \/ InvalidateAllUserSessions(c)
          \/ Smembers(c)
          \/ InvalidateAllDelete(c)
          \/ InvalidateAllDeleteSet(c)
          \/ GetActiveSessions(c)
          \/ ActiveHgetall(c)
          \/ ActiveReturn(c)
    \/ SecondPasses

SpecSession == InitSession /\ [][NextSession]_vars

\* C30: once invalidate_session(s) or invalidate_all_user_sessions(user)
\* has completed, every get_session(s) that begins later returns None and
\* no get_active_sessions that begins later lists s, whatever get_session
\* and create_session calls run concurrently.  (`after` holds the sessions
\* invalidated before the call began and not created anew since.)
C30_InvalidatedSessionsStayGone ==
    \A i \in DOMAIN auth_replies :
        LET r == auth_replies[i]
        IN /\ (r.op = "get_session" /\ r.sid \in r.after) => r.returned_none
           /\ r.op = "get_active_sessions" => r.sessions \cap r.after = {}
=============================================================================
